---------------------------- MODULE Spec2Model ----------------------------
(***************************************************************************)
(* A model of suds: the SOAP runtime (util/src/soap.rs, util/src/xml.rs),  *)
(* the code the generator emits for types and messages                     *)
(* (codegen/src/codegen.rs), the resolver (codegen/src/preprocessor.rs)    *)
(* and the WSDL/XSD parser (wsdl/src/parser.rs).                           *)
(*                                                                         *)
(* Text is a sequence of one-character strings, so that formatting,        *)
(* escaping, trimming and parsing are computed, not assumed.               *)
(***************************************************************************)
EXTENDS Integers, Sequences, FiniteSets, TLC

VARIABLES
    \* ---- SOAP runtime: one Client and the call it is serving ----
    schema,      \* the Definition the client code was generated from
    body,        \* the message value wrapped by the request Envelope
    pc,          \* position of Client::send: idle, inflight, returned, panicked
    posts,       \* HTTP POSTs issued so far
    parses,      \* Envelope::from_response calls made so far
    response,    \* the bytes the server answered with
    result,      \* what from_response produced: [ok, val, pos]
    sends,       \* calls to send begun so far
    wire,        \* the last request put on the wire: [url, content_type, body]
    written,     \* the events the last call passed to the Writer
    \* ---- code generation: one call of from_definition ----
    input,       \* the wsdl Definition handed to from_definition
    generated,   \* its outcome: [kind, services, types]
    codegen_state,  \* the State of the code generator: [added_types, rust_names, name_counts]
    returned,    \* the rust_name calls made on codegen_state: [name, ident]
    visited,     \* how many of input.types Type::codegen was called on
    \* ---- WSDL parser: one call of parse ----
    root,        \* Parser.root, the URL given to parse
    calls,       \* the parse_xml activations, outermost first: [url, stack, nsbuf, pending]
    definition,  \* Parser.definition
    namespaces,  \* Parser.namespaces, the interned URIs
    current_namespaces,  \* Parser.current_namespaces: [target, namespaces]
    outcome,     \* what parse has returned: [kind, error, detail]
    log,         \* the URLs parse_url was called with ("PARSING URL: ...")
    opened,      \* the URLs a Reader was opened on
    last,        \* the event the reader returned last
    nev,         \* events read so far, over all documents
    document,    \* the events of the root document when it is given, else <<>>
    built        \* the add_or_get and NamespacedName::new calls made: [uri, idx, name]

soapVars == <<schema, body, pc, posts, parses, response, result, sends, wire, written>>
genVars == <<input, generated, codegen_state, returned, visited>>
parserVars == <<root, calls, definition, namespaces, current_namespaces, outcome, log,
                opened, last, nev, document, built>>
vars == <<soapVars, genVars, parserVars>>

(***************************************************************************)
(* Bounds of the model.                                                    *)
(***************************************************************************)
MaxStr == 2
MaxSends == 2

(***************************************************************************)
(* Text: characters, decimal formatting and parsing.                       *)
(***************************************************************************)
Alphabet == {"a", " ", "&"}

RECURSIVE StrsOfLen(_)
StrsOfLen(n) ==
    IF n = 0 THEN {<<>>}
    ELSE {<<c>> \o s : c \in Alphabet, s \in StrsOfLen(n - 1)}

Strs == UNION {StrsOfLen(n) : n \in 0..MaxStr}

Digit(d) ==
    CASE d = 0 -> "0" [] d = 1 -> "1" [] d = 2 -> "2" [] d = 3 -> "3"
      [] d = 4 -> "4" [] d = 5 -> "5" [] d = 6 -> "6" [] d = 7 -> "7"
      [] d = 8 -> "8" [] d = 9 -> "9"

DigitChars == {"0", "1", "2", "3", "4", "5", "6", "7", "8", "9"}

DigitVal(c) == CHOOSE d \in 0..9 : Digit(d) = c

RECURSIVE FormatNat(_)
FormatNat(n) ==
    IF n < 10 THEN <<Digit(n)>>
    ELSE FormatNat(n \div 10) \o <<Digit(n % 10)>>

\* format!("{}", v) for an integer
FormatInt(n) == IF n < 0 THEN <<"-">> \o FormatNat(-n) ELSE FormatNat(n)

\* format!("{}", v) for a bool
FormatBool(b) == IF b THEN <<"t", "r", "u", "e">> ELSE <<"f", "a", "l", "s", "e">>

RECURSIVE DigitsVal(_, _)
DigitsVal(s, acc) ==
    IF s = <<>> THEN acc
    ELSE DigitsVal(Tail(s), acc * 10 + DigitVal(Head(s)))

AllDigits(s) == s # <<>> /\ \A i \in 1..Len(s) : s[i] \in DigitChars

\* str::parse::<isize>: an optional sign, then decimal digits
ParseInt(s) ==
    IF s # <<>> /\ Head(s) \in {"-", "+"}
    THEN IF AllDigits(Tail(s))
         THEN [ok |-> TRUE,
               val |-> IF Head(s) = "-" THEN -DigitsVal(Tail(s), 0)
                       ELSE DigitsVal(Tail(s), 0)]
         ELSE [ok |-> FALSE, val |-> 0]
    ELSE IF AllDigits(s) THEN [ok |-> TRUE, val |-> DigitsVal(s, 0)]
         ELSE [ok |-> FALSE, val |-> 0]

\* str::parse::<u16> / <usize>: decimal digits, an optional plus, no minus
ParseUnsigned(s, max) ==
    LET d == IF s # <<>> /\ Head(s) = "+" THEN Tail(s) ELSE s
    IN  IF AllDigits(d) /\ DigitsVal(d, 0) <= max
        THEN [ok |-> TRUE, val |-> DigitsVal(d, 0)]
        ELSE [ok |-> FALSE, val |-> 0]

\* str::parse::<bool>
ParseBool(s) ==
    IF s = FormatBool(TRUE) THEN [ok |-> TRUE, val |-> TRUE]
    ELSE IF s = FormatBool(FALSE) THEN [ok |-> TRUE, val |-> FALSE]
    ELSE [ok |-> FALSE, val |-> FALSE]

(***************************************************************************)
(* XML events and the bytes on the wire.  A document is a sequence of      *)
(* markup items (start tag, end tag, empty-element tag, declaration,       *)
(* comment) and runs of character data; an element name is a prefix and a  *)
(* local part.                                                             *)
(***************************************************************************)
NoName == [prefix |-> [p |-> "", i |-> -1], local |-> ""]

\* format!("ns{}:{}", index, local)
NsName(idx, local) == [prefix |-> [p |-> "ns", i |-> idx], local |-> local]

SoapenvName(local) == [prefix |-> [p |-> "soapenv", i |-> -1], local |-> local]

\* ("xmlns:ns{idx}", url) and ("xmlns:soapenv", url)
NsAttr(idx, url) == [key |-> [p |-> "xmlns:ns", i |-> idx], value |-> url]

SoapenvAttr == [key |-> [p |-> "xmlns:soapenv", i |-> -1],
                value |-> "http://schemas.xmlsoap.org/soap/envelope/"]

StartEv(name, attrs) == [k |-> "Start", name |-> name, attrs |-> attrs, text |-> <<>>]
EndEv(name) == [k |-> "End", name |-> name, attrs |-> <<>>, text |-> <<>>]
TextEv(text) == [k |-> "Text", name |-> NoName, attrs |-> <<>>, text |-> text]
OtherEv(kind) == [k |-> kind, name |-> NoName, attrs |-> <<>>, text |-> <<>>]

STag(name, attrs) == [m |-> "stag", name |-> name, attrs |-> attrs, s |-> <<>>]
ETag(name) == [m |-> "etag", name |-> name, attrs |-> <<>>, s |-> <<>>]
EmptyTag(name, attrs) == [m |-> "empty", name |-> name, attrs |-> attrs, s |-> <<>>]
Chars(s) == [m |-> "chars", name |-> NoName, attrs |-> <<>>, s |-> s]
Markup(kind) == [m |-> kind, name |-> NoName, attrs |-> <<>>, s |-> <<>>]

\* quick_xml's escape, used by BytesText::from_plain_str
EscapeChar(c) ==
    CASE c = "&" -> <<"&", "a", "m", "p", ";">>
      [] c = "<" -> <<"&", "l", "t", ";">>
      [] c = ">" -> <<"&", "g", "t", ";">>
      [] c = "'" -> <<"&", "a", "p", "o", "s", ";">>
      [] c = "\"" -> <<"&", "q", "u", "o", "t", ";">>
      [] OTHER -> <<c>>

RECURSIVE Escape(_)
Escape(s) == IF s = <<>> THEN <<>> ELSE EscapeChar(Head(s)) \o Escape(Tail(s))

EntityNames == {<<"a", "m", "p">>, <<"l", "t">>, <<"g", "t">>,
                <<"a", "p", "o", "s">>, <<"q", "u", "o", "t">>}

EntityChar(n) ==
    CASE n = <<"a", "m", "p">> -> "&"
      [] n = <<"l", "t">> -> "<"
      [] n = <<"g", "t">> -> ">"
      [] n = <<"a", "p", "o", "s">> -> "'"
      [] n = <<"q", "u", "o", "t">> -> "\""

\* BytesText::unescaped: an entity is "&", a name, ";"; anything else after
\* "&" is an error
RECURSIVE Unescape(_)
Unescape(s) ==
    IF s = <<>> THEN [ok |-> TRUE, val |-> <<>>]
    ELSE IF Head(s) # "&"
    THEN LET r == Unescape(Tail(s))
         IN  [ok |-> r.ok, val |-> IF r.ok THEN <<Head(s)>> \o r.val ELSE <<>>]
    ELSE LET semis == {j \in 2..Len(s) : s[j] = ";"}
         IN  IF semis = {} THEN [ok |-> FALSE, val |-> <<>>]
             ELSE LET j == CHOOSE x \in semis : \A y \in semis : x <= y
                      n == SubSeq(s, 2, j - 1)
                  IN  IF n \notin EntityNames THEN [ok |-> FALSE, val |-> <<>>]
                      ELSE LET r == Unescape(SubSeq(s, j + 1, Len(s)))
                           IN  [ok |-> r.ok,
                                val |-> IF r.ok THEN <<EntityChar(n)>> \o r.val
                                        ELSE <<>>]

IsWhitespace(c) == c \in {" ", "\n", "\t", "\r"}

\* Reader::trim_text(true): leading and trailing whitespace is cut
RECURSIVE TrimStart(_)
TrimStart(s) ==
    IF s # <<>> /\ IsWhitespace(Head(s)) THEN TrimStart(Tail(s)) ELSE s

RECURSIVE TrimEnd(_)
TrimEnd(s) ==
    IF s # <<>> /\ IsWhitespace(s[Len(s)])
    THEN TrimEnd(SubSeq(s, 1, Len(s) - 1)) ELSE s

Trim(s) == TrimEnd(TrimStart(s))

\* the writer appends bytes: adjacent runs of character data are one run,
\* and an empty run is nothing
AppendChars(doc, s) ==
    IF s = <<>> THEN doc
    ELSE IF doc # <<>> /\ doc[Len(doc)].m = "chars"
    THEN SubSeq(doc, 1, Len(doc) - 1) \o <<Chars(doc[Len(doc)].s \o s)>>
    ELSE Append(doc, Chars(s))

IndentSize == 2

RECURSIVE Spaces(_)
Spaces(n) == IF n = 0 THEN <<>> ELSE <<" ">> \o Spaces(n - 1)

\* Writer::write_wrapped: a line break and the current indent before a tag,
\* unless the previous event was a Text
Wrapped(doc, level, brk) ==
    IF brk THEN AppendChars(doc, <<"\n">> \o Spaces(level)) ELSE doc

\* Writer::new_with_indent(.., b' ', 2) then write_event for each event
RECURSIVE WriteEvents(_, _, _, _)
WriteEvents(evs, doc, level, brk) ==
    IF evs = <<>> THEN doc
    ELSE LET e == Head(evs)
         IN  CASE e.k = "Start" ->
                    WriteEvents(Tail(evs),
                                Append(Wrapped(doc, level, brk), STag(e.name, e.attrs)),
                                level + IndentSize, TRUE)
               [] e.k = "End" ->
                    LET l == IF level >= IndentSize THEN level - IndentSize ELSE 0
                    IN  WriteEvents(Tail(evs),
                                    Append(Wrapped(doc, l, brk), ETag(e.name)),
                                    l, TRUE)
               [] e.k = "Text" ->
                    WriteEvents(Tail(evs), AppendChars(doc, Escape(e.text)),
                                level, FALSE)

\* Reader with trim_text(true) and expand_empty_elements(true): the events
\* read_event returns one after the other.  `open` is the reader's stack of
\* open element names (check_end_names is on by default).
RECURSIVE ReadEvents(_, _)
ReadEvents(doc, open) ==
    IF doc = <<>> THEN <<>>
    ELSE LET it == Head(doc)
         IN  CASE it.m = "stag" ->
                    <<StartEv(it.name, it.attrs)>>
                        \o ReadEvents(Tail(doc), Append(open, it.name))
               [] it.m = "empty" ->
                    <<StartEv(it.name, it.attrs), EndEv(it.name)>>
                        \o ReadEvents(Tail(doc), open)
               [] it.m = "etag" ->
                    IF open # <<>> /\ open[Len(open)] = it.name
                    THEN <<EndEv(it.name)>>
                             \o ReadEvents(Tail(doc), SubSeq(open, 1, Len(open) - 1))
                    ELSE <<OtherEv("Error")>>
               [] it.m = "chars" ->
                    IF Trim(it.s) = <<>> THEN ReadEvents(Tail(doc), open)
                    ELSE <<TextEv(Trim(it.s))>> \o ReadEvents(Tail(doc), open)
               [] OTHER ->
                    <<OtherEv(it.m)>> \o ReadEvents(Tail(doc), open)

\* reader.read_event at position i: Eof for ever at the end of the input,
\* the error again after a malformed tag
EventAt(evs, i) ==
    IF i <= Len(evs) THEN evs[i]
    ELSE IF evs # <<>> /\ evs[Len(evs)].k = "Error" THEN evs[Len(evs)]
    ELSE OtherEv("Eof")

(***************************************************************************)
(* The intermediate model, as the parser builds it and the generator reads *)
(* it: NamespacedName, Field, FieldKind, TypeKind, Type, Message.          *)
(***************************************************************************)
NN(idx, name) == [idx |-> idx, name |-> name]

NoNN == NN(-1, "")

NoKind == [kind |-> "None", fields |-> <<>>, ref |-> NoNN]
Struct(fields) == [kind |-> "Struct", fields |-> fields, ref |-> NoNN]
Simple(ty) == [kind |-> "Simple", fields |-> <<>>, ref |-> ty]
Alias(ty) == [kind |-> "Alias", fields |-> <<>>, ref |-> ty]

FieldType(ty) == [kind |-> "Type", ref |-> ty, inner |-> NoKind]
FieldInner(k) == [kind |-> "Inner", ref |-> NoNN, inner |-> k]

Field(name, ty) == [name |-> name, ty |-> ty]
Type(name, kind) == [name |-> name, kind |-> kind]
Message(name, parts) == [name |-> name, parts |-> parts]

\* get_ty_ident: the primitive a type's LOCAL name maps to, "None" otherwise
get_ty_ident(ty) ==
    CASE ty = "boolean" -> "bool"
      [] ty = "int" -> "isize"
      [] ty = "unsignedShort" -> "u16"
      [] ty = "unsignedInt" -> "usize"
      [] ty \in {"dateTime", "string"} -> "String"
      [] OTHER -> "None"

U16Max == 65535

\* format!("{}", value) for a value of the primitive `ident`
FormatValue(ident, v) ==
    CASE ident = "bool" -> FormatBool(v)
      [] ident = "String" -> v
      [] OTHER -> FormatInt(v)

\* text.parse::<T>() for the primitive `ident`
ParseValue(ident, s) ==
    CASE ident = "bool" -> ParseBool(s)
      [] ident = "String" -> [ok |-> TRUE, val |-> s]
      [] ident = "isize" -> ParseInt(s)
      [] ident = "u16" -> ParseUnsigned(s, U16Max)
      [] OTHER -> ParseUnsigned(s, 2147483647)

(***************************************************************************)
(* xml.rs: the expectation helpers, over the events the reader returns.    *)
(* A parse in progress is r = [ok, val, pos]: pos is the next unread       *)
(* event, val the field values read so far for the record being built;     *)
(* every caller unwraps, so a failed expectation (a panic) ends the parse: *)
(* each helper passes a failed r on.                                       *)
(***************************************************************************)
Failed == [ok |-> FALSE, val |-> <<>>, pos |-> 0]

Begin(pos) == [ok |-> TRUE, val |-> <<>>, pos |-> pos]

\* next_event: read until a Start, Empty, End or Text; None at Eof; a read
\* error panics
RECURSIVE next_event(_, _)
next_event(evs, pos) ==
    IF EventAt(evs, pos).k \in {"Start", "Empty", "End", "Text"}
    THEN [ok |-> TRUE, val |-> EventAt(evs, pos), pos |-> pos + 1]
    ELSE IF EventAt(evs, pos).k \in {"Eof", "Error"} THEN Failed
    ELSE next_event(evs, pos + 1)

\* a Start whose whole name is soapenv:`name`
IsStartQualified(e, name) ==
    e.k = "Start" /\ e.name = [prefix |-> [p |-> "soapenv", i |-> -1], local |-> name]

\* is_start: a Start whose local name is `name`
is_start(e, name) == e.k = "Start" /\ e.name.local = name

StartFound(r, n, name) ==
    IF n.ok /\ is_start(n.val, name) THEN [r EXCEPT !.pos = n.pos] ELSE Failed

\* expect_start(reader, buffer, name).unwrap()
expect_start(evs, r, name) ==
    IF r.ok THEN StartFound(r, next_event(evs, r.pos), name) ELSE Failed

\* text.unescaped().unwrap(), then text.parse().unwrap()
ParseText(ident, u) ==
    IF u.ok THEN ParseValue(ident, u.val) ELSE [ok |-> FALSE, val |-> <<>>]

ValueRead(r, v) ==
    IF v.ok THEN [ok |-> TRUE, val |-> v.val, pos |-> r.pos + 1] ELSE Failed

\* expect_value::<T>(reader, buffer).unwrap(): val is the value read
expect_value(evs, r, ident) ==
    IF r.ok /\ EventAt(evs, r.pos).k = "Text"
    THEN ValueRead(r, ParseText(ident, Unescape(EventAt(evs, r.pos).text)))
    ELSE Failed

\* an expect_end that reads with next_event
ExpectEndSkipping(evs, r) ==
    IF r.ok /\ next_event(evs, r.pos).ok /\ next_event(evs, r.pos).val.k = "End"
    THEN [r EXCEPT !.pos = next_event(evs, r.pos).pos]
    ELSE Failed

\* expect_end(reader, buffer).unwrap(): the End's name is not looked at
expect_end(evs, r) ==
    IF r.ok /\ EventAt(evs, r.pos).k = "End" THEN [r EXCEPT !.pos = r.pos + 1]
    ELSE Failed

(***************************************************************************)
(* The code the generator emits (codegen.rs), read as functions of the     *)
(* Definition it was generated from.  def = [namespaces, types, message].  *)
(* A record value is the sequence of its field values, a newtype value is  *)
(* the one-element sequence of the wrapped value.                          *)
(***************************************************************************)
\* the type entries named nn, in table order
EntriesNamed(def, nn) == {i \in 1..Len(def.types) : def.types[i].name = nn}

FirstNamed(def, nn) ==
    def.types[CHOOSE x \in EntriesNamed(def, nn) : \A y \in EntriesNamed(def, nn) : x <= y]

\* the declaration `super::types::#ident` stands for: State::is_new_type
\* keeps the first entry with a name and skips the repeats; an alias entry
\* declares `pub type #name = #alias`, which is the alias's declaration
RECURSIVE ResolveType(_, _, _)
ResolveType(def, nn, fuel) ==
    IF FirstNamed(def, nn).kind.kind = "Alias" /\ FirstNamed(def, nn).kind.ref # nn
       /\ fuel > 0
    THEN ResolveType(def, FirstNamed(def, nn).kind.ref, fuel - 1)
    ELSE FirstNamed(def, nn)

\* fn with_attributes(start): one xmlns:ns{idx} attribute per namespace
with_attributes(def) ==
    [idx \in 1..Len(def.namespaces) |-> NsAttr(idx - 1, def.namespaces[idx])]

\* the text the generated newtype's to_xml writes: format!("{}", 0)
SimpleText(ident, v) == FormatInt(0)

\* the field a FieldKind::Inner(Struct([f])) collapses to: f under the
\* outer field's name
CollapseInner(field) ==
    Field(field.name, field.ty.inner.fields[Len(field.ty.inner.fields)].ty)

\* the attributes the generated to_xml puts on its start tag
TopLevelAttrs(def, top_level) == IF top_level THEN with_attributes(def) ELSE <<>>

\* what a Message's to_xml passes to each part
MessagePartTopLevel(top_level) == top_level

\* write Start, the inner events, End
Element(name, attrs, inner) == <<StartEv(name, attrs)>> \o inner \o <<EndEv(name)>>

\* a field of a built-in type: <ns{i}:field>{value}</ns{i}:field>
BuiltinFieldToXml(field, v) ==
    Element(NsName(field.name.idx, field.name.name), <<>>,
            <<TextEv(FormatValue(get_ty_ident(field.ty.ref.name), v))>>)

RECURSIVE TypeToXml(_, _, _, _), FieldToXml(_, _, _, _), FieldsToXml(_, _, _, _)
\* impl ToXml for the generated type t: the events it writes
TypeToXml(def, t, v, top_level) ==
    Element(NsName(t.name.idx, t.name.name), TopLevelAttrs(def, top_level),
            IF t.kind.kind = "Simple"
            THEN <<TextEv(SimpleText(get_ty_ident(t.kind.ref.name), v[1]))>>
            ELSE FieldsToXml(def, t.kind.fields, v, FALSE))

\* codegen_to_xml_field
FieldToXml(def, field, v, top_level) ==
    IF field.ty.kind = "Type"
    THEN IF get_ty_ident(field.ty.ref.name) # "None"
         THEN BuiltinFieldToXml(field, v)
         ELSE TypeToXml(def, ResolveType(def, field.ty.ref, Len(def.types)), v, top_level)
    ELSE FieldToXml(def, CollapseInner(field), v, top_level)

\* codegen_to_xml_fields: the fields in order
FieldsToXml(def, fields, v, top_level) ==
    IF fields = <<>> THEN <<>>
    ELSE FieldToXml(def, Head(fields), Head(v), top_level)
             \o FieldsToXml(def, Tail(fields), Tail(v), top_level)

\* impl ToXml for a generated message: the parts, with no element around them
MessageToXml(def, v, top_level) ==
    FieldsToXml(def, def.message.parts, v, MessagePartTopLevel(top_level))

\* the value x just read becomes the next field of the record r is building
PushVal(r, x) == IF x.ok THEN [x EXCEPT !.val = Append(r.val, x.val)] ELSE Failed

Fresh(x) == [x EXCEPT !.val = <<>>]

\* Self(value)
Wrap(x) == [x EXCEPT !.val = <<x.val>>]

\* a field of a built-in type: expect_start(field), expect_value, expect_end
BuiltinFieldFromXml(field, evs, r) ==
    expect_end(evs,
        PushVal(r, expect_value(evs, expect_start(evs, r, field.name.name),
                                get_ty_ident(field.ty.ref.name))))

RECURSIVE TypeFromXml(_, _, _, _), FieldFromXml(_, _, _, _), FieldsFromXml(_, _, _, _)
\* impl FromXml for the generated type t: val is the value read
TypeFromXml(def, t, evs, r) ==
    expect_end(evs,
        IF t.kind.kind = "Simple"
        THEN Wrap(expect_value(evs, expect_start(evs, r, t.name.name),
                               get_ty_ident(t.kind.ref.name)))
        ELSE FieldsFromXml(def, t.kind.fields, evs,
                           Fresh(expect_start(evs, r, t.name.name))))

\* codegen_from_xml_field
FieldFromXml(def, field, evs, r) ==
    IF field.ty.kind = "Type"
    THEN IF get_ty_ident(field.ty.ref.name) # "None"
         THEN BuiltinFieldFromXml(field, evs, r)
         ELSE PushVal(r, TypeFromXml(def, ResolveType(def, field.ty.ref, Len(def.types)),
                                     evs, r))
    ELSE FieldFromXml(def, CollapseInner(field), evs, r)

\* codegen_from_xml_fields: the fields of the record literal, in order
FieldsFromXml(def, fields, evs, r) ==
    IF fields = <<>> THEN r
    ELSE FieldsFromXml(def, Tail(fields), evs, FieldFromXml(def, Head(fields), evs, r))

\* impl FromXml for a generated message
MessageFromXml(def, evs, r) == FieldsFromXml(def, def.message.parts, evs, Fresh(r))

(***************************************************************************)
(* soap.rs: Envelope<T>.                                                   *)
(***************************************************************************)
\* impl ToXml for Envelope<T>
EnvelopeToXml(def, v, top_level) ==
    Element(SoapenvName("Envelope"), <<SoapenvAttr>>,
            Element(SoapenvName("Body"), <<>>, MessageToXml(def, v, top_level)))

\* Envelope::to_request
to_request(def, v) == WriteEvents(EnvelopeToXml(def, v, TRUE), <<>>, 0, FALSE)

\* a reader that consumes one End only after the body
EnvelopeExpectOneEnd(evs, r) == expect_end(evs, r)

\* the two expect_end calls after the body
EnvelopeExpectEnds(evs, r) == expect_end(evs, expect_end(evs, r))

\* impl FromXml for Envelope<T>
EnvelopeFromXml(def, evs, pos) ==
    EnvelopeExpectEnds(evs,
        MessageFromXml(def, evs,
            expect_start(evs, expect_start(evs, Begin(pos), "Envelope"), "Body")))

\* Envelope::from_response
from_response(def, doc) ==
    CHOOSE r \in {EnvelopeFromXml(def, evs, 1) : evs \in {ReadEvents(doc, <<>>)}} : TRUE

(***************************************************************************)
(* The Definitions the client code is generated from, and the message      *)
(* values of each.  Namespace 0 is the target namespace, namespace 1 is    *)
(* XML Schema's.                                                           *)
(***************************************************************************)
Tns(l) == NN(0, l)
Xs(l) == NN(1, l)

SchemaNamespaces == <<"urn:example", "http://www.w3.org/2001/XMLSchema">>

\* the calculator example: Add(intA: int, intB: int)
Calculator ==
    [namespaces |-> SchemaNamespaces,
     types |-> <<Type(Tns("Add"),
                      Struct(<<Field(Tns("intA"), FieldType(Xs("int"))),
                               Field(Tns("intB"), FieldType(Xs("int")))>>))>>,
     message |-> Message(Tns("AddSoapIn"),
                         <<Field(Tns("parameters"), FieldType(Tns("Add")))>>)]

\* a record of built-in fields, a nested record and an inline one-field
\* complexType
Nested ==
    [namespaces |-> SchemaNamespaces,
     types |-> <<Type(Tns("Inner"),
                      Struct(<<Field(Tns("n"), FieldType(Xs("unsignedShort")))>>)),
                 Type(Tns("Outer"),
                      Struct(<<Field(Tns("s"), FieldType(Xs("string"))),
                               Field(Tns("flag"), FieldType(Xs("boolean"))),
                               Field(Tns("inner"), FieldType(Tns("Inner"))),
                               Field(Tns("wrapped"),
                                     FieldInner(Struct(<<Field(Tns("item"),
                                                         FieldType(Xs("int")))>>)))>>))>>,
     message |-> Message(Tns("OuterSoapIn"),
                         <<Field(Tns("parameters"), FieldType(Tns("Outer")))>>)]

\* the trains example: CRSType is a simpleType restricting xs:string
Trains ==
    [namespaces |-> SchemaNamespaces,
     types |-> <<Type(Tns("CRSType"), Simple(Xs("string"))),
                 Type(Tns("Request"),
                      Struct(<<Field(Tns("crs"), FieldType(Tns("CRSType"))),
                               Field(Tns("timeOffset"), FieldType(Xs("int")))>>))>>,
     message |-> Message(Tns("RequestSoapIn"),
                         <<Field(Tns("parameters"), FieldType(Tns("Request")))>>)]

\* a message with two parts
TwoParts ==
    [namespaces |-> SchemaNamespaces,
     types |-> <<Type(Tns("A"), Struct(<<Field(Tns("x"), FieldType(Xs("int")))>>)),
                 Type(Tns("B"), Struct(<<Field(Tns("y"), FieldType(Xs("boolean")))>>))>>,
     message |-> Message(Tns("TwoSoapIn"),
                         <<Field(Tns("first"), FieldType(Tns("A"))),
                           Field(Tns("second"), FieldType(Tns("B")))>>)]

\* a message whose part is of a built-in type
BuiltinPart ==
    [namespaces |-> SchemaNamespaces,
     types |-> <<>>,
     message |-> Message(Tns("NoteSoapIn"),
                         <<Field(Tns("note"), FieldType(Xs("dateTime")))>>)]

Schemas == {Calculator, Nested, Trains, TwoParts, BuiltinPart}

IntVals == {-1, 0, 25}
UnsignedVals == {0, U16Max}

PrimitiveVals(ident) ==
    CASE ident = "bool" -> BOOLEAN
      [] ident = "String" -> Strs
      [] ident = "isize" -> IntVals
      [] OTHER -> UnsignedVals

RECURSIVE TypeVals(_, _), FieldVals(_, _), FieldsVals(_, _)
TypeVals(def, t) ==
    IF t.kind.kind = "Simple"
    THEN {<<v>> : v \in PrimitiveVals(get_ty_ident(t.kind.ref.name))}
    ELSE FieldsVals(def, t.kind.fields)

FieldVals(def, field) ==
    IF field.ty.kind = "Type"
    THEN IF get_ty_ident(field.ty.ref.name) # "None"
         THEN PrimitiveVals(get_ty_ident(field.ty.ref.name))
         ELSE TypeVals(def, ResolveType(def, field.ty.ref, Len(def.types)))
    ELSE FieldVals(def, CollapseInner(field))

FieldsVals(def, fields) ==
    IF fields = <<>> THEN {<<>>}
    ELSE {<<h>> \o t : h \in FieldVals(def, Head(fields)),
                       t \in FieldsVals(def, Tail(fields))}

Bodies(def) == FieldsVals(def, def.message.parts)

(***************************************************************************)
(* What a server may answer: the request echoed, or the echo changed in    *)
(* one place.                                                              *)
(***************************************************************************)
Answers == {"echo", "decl", "prefix", "renamed", "nobody", "truncated",
            "comment", "text", "extra", "empty"}

InsertAt(doc, i, item) == SubSeq(doc, 1, i - 1) \o <<item>> \o SubSeq(doc, i, Len(doc))

Rename(doc, from, to) ==
    [i \in 1..Len(doc) |-> IF doc[i].name = from THEN [doc[i] EXCEPT !.name = to]
                           ELSE doc[i]]

\* the first start tag that is at once followed by its end tag, as <x/>
EmptiedAt(doc, i) ==
    SubSeq(doc, 1, i - 1) \o <<EmptyTag(doc[i].name, doc[i].attrs)>>
        \o SubSeq(doc, i + 2, Len(doc))

Least(c) == CHOOSE x \in c : \A y \in c : x <= y

Emptiable(doc) == {i \in 1..Len(doc) - 1 : doc[i].m = "stag" /\ doc[i + 1].m = "etag"}

FirstEmptied(doc) ==
    IF Emptiable(doc) = {} THEN doc ELSE EmptiedAt(doc, Least(Emptiable(doc)))

Answer(kind, doc) ==
    CASE kind = "echo" -> doc
      [] kind = "decl" -> <<Markup("decl")>> \o doc
      [] kind = "prefix" ->
            Rename(Rename(doc, SoapenvName("Envelope"),
                          [prefix |-> [p |-> "s", i |-> -1], local |-> "Envelope"]),
                   SoapenvName("Body"),
                   [prefix |-> [p |-> "s", i |-> -1], local |-> "Body"])
      [] kind = "renamed" ->
            Rename(doc, SoapenvName("Envelope"), SoapenvName("Fault"))
      [] kind = "nobody" ->
            SelectSeq(doc, LAMBDA it : it.name # SoapenvName("Body"))
      [] kind = "truncated" -> SubSeq(doc, 1, Len(doc) - 1)
      [] kind = "comment" -> InsertAt(doc, Len(doc), Markup("comment"))
      [] kind = "text" -> <<Chars(<<"a">>)>> \o doc
      [] kind = "extra" -> InsertAt(doc, Len(doc), EmptyTag(NsName(0, "extra"), <<>>))
      [] kind = "empty" -> FirstEmptied(doc)

(***************************************************************************)
(* soap.rs: Client::send, one call at a time.                              *)
(***************************************************************************)
ClientUrl == "http://host/service.asmx"

NoRequest == [url |-> "", content_type |-> "", body |-> <<>>]

NoResult == [ok |-> FALSE, val |-> <<>>, pos |-> 0]

InitSoap ==
    /\ schema \in Schemas
    /\ body \in Bodies(schema)
    /\ pc = "idle"
    /\ posts = 0
    /\ parses = 0
    /\ response = <<>>
    /\ result = NoResult
    /\ sends = 0
    /\ wire = NoRequest
    /\ written = <<>>

\* send, up to the blocking POST: the envelope is serialized and posted
SendPost ==
    /\ pc \in {"idle", "returned"}
    /\ sends < MaxSends
    /\ sends' = sends + 1
    /\ written' = EnvelopeToXml(schema, body, TRUE)
    /\ wire' = [url |-> ClientUrl, content_type |-> "text/xml",
                body |-> to_request(schema, body)]
    /\ posts' = posts + 1
    /\ pc' = "inflight"
    /\ UNCHANGED <<schema, body, parses, response, result, genVars, parserVars>>

\* a client that posts again after a transport failure
TransportRetry ==
    /\ pc = "inflight"
    /\ posts <= MaxSends
    /\ posts' = posts + 1
    /\ UNCHANGED <<schema, body, pc, parses, response, result, sends, wire, written,
                   genVars, parserVars>>

\* .send().unwrap() or .bytes().unwrap() on a transport failure: a panic
TransportFail ==
    /\ pc = "inflight"
    /\ pc' = "panicked"
    /\ UNCHANGED <<schema, body, posts, parses, response, result, sends, wire, written,
                   genVars, parserVars>>

\* the response arrives and is parsed as Envelope<U>
Receive(kind) ==
    /\ pc = "inflight"
    /\ response' = Answer(kind, wire.body)
    /\ parses' = parses + 1
    /\ result' = from_response(schema, response')
    /\ pc' = IF result'.ok THEN "returned" ELSE "panicked"
    /\ UNCHANGED <<schema, body, posts, sends, wire, written, genVars, parserVars>>

NextSoap ==
    \/ SendPost
    \/ TransportFail
    \/ \E kind \in Answers : Receive(kind)



(***************************************************************************)
(* Properties of the generated (de)serializers and of Client::send,        *)
(* checked under SpecSoap.                                                 *)
(***************************************************************************)
\* the type graph holds built-in fields and Structs only
StructsOnly(def) == \A i \in 1..Len(def.types) : def.types[i].kind.kind = "Struct"

\* C1: for a message whose type graph holds only built-ins and Structs, and
\* for every value of its fields, reading back the bytes to_request wrote
\* yields an envelope whose body equals the one written.
RoundTrip ==
    (parses > 0 /\ response = wire.body /\ StructsOnly(schema))
        => (result.ok /\ result.val = body)

\* C2: the newtype of a simpleType writes Start ns{i}:{TypeName}, a Text
\* holding the wrapped value, then End; here CRSType inside the trains request.
NewtypeWritesValue ==
    (schema = Trains /\ written # <<>>)
        => SubSeq(written, 4, 6) = <<StartEv(NsName(0, "CRSType"), <<>>),
                                     TextEv(body[1][1][1]),
                                     EndEv(NsName(0, "CRSType"))>>

\* the events of the request that carry an xmlns:ns{i} declaration
Declaring(evs, def) ==
    {i \in 1..Len(evs) :
        \E j \in 1..Len(evs[i].attrs), n \in 1..Len(def.namespaces) :
            evs[i].attrs[j] = NsAttr(n - 1, def.namespaces[n])}

\* C3: in the request, the xmlns:ns{i} declarations, one per namespace, sit
\* on exactly one element, the root of the body content (the event after
\* Start Envelope and Start Body), and on no other element.
DeclaredOnBodyRootOnly ==
    written # <<>>
        => /\ Declaring(written, schema) = {3}
           /\ written[3].attrs = with_attributes(schema)

\* events the reader's next_event passes over
Skipped(e) == e.k \notin {"Start", "Empty", "End", "Text", "Eof", "Error"}

\* the first two events next_event returns are Start Envelope at i and Start
\* Body at j
FramedAt(evs, i, j) ==
    /\ i < j
    /\ \A k \in 1..(i - 1) : Skipped(evs[k])
    /\ is_start(evs[i], "Envelope")
    /\ \A k \in (i + 1)..(j - 1) : Skipped(evs[k])
    /\ is_start(evs[j], "Body")

\* the body read after Start Body at j, followed at once by two Ends
BodyThenTwoEnds(def, evs, b) ==
    /\ b.ok
    /\ EventAt(evs, b.pos).k = "End"
    /\ EventAt(evs, b.pos + 1).k = "End"

FramingOfResponse(def, evs, res) ==
    IF \E i, j \in 1..Len(evs) :
           /\ FramedAt(evs, i, j)
           /\ BodyThenTwoEnds(def, evs, MessageFromXml(def, evs, Begin(j + 1)))
    THEN /\ res.ok
         /\ \E i, j \in 1..Len(evs) :
               /\ FramedAt(evs, i, j)
               /\ res.val = MessageFromXml(def, evs, Begin(j + 1)).val
               /\ res.pos = MessageFromXml(def, evs, Begin(j + 1)).pos + 2
    ELSE ~res.ok

\* C4: to_xml emits Start soapenv:Envelope (declaring xmlns:soapenv), Start
\* soapenv:Body, the body's events, End soapenv:Body, End soapenv:Envelope,
\* in this order; from_xml succeeds exactly when the next events are a Start
\* Envelope, a Start Body, what T::from_xml reads, and two Ends, and it
\* consumes exactly those.
EnvelopeFraming ==
    /\ written # <<>>
          => /\ Len(written) >= 4
             /\ written[1] = StartEv(SoapenvName("Envelope"), <<SoapenvAttr>>)
             /\ written[2] = StartEv(SoapenvName("Body"), <<>>)
             /\ SubSeq(written, 3, Len(written) - 2) = MessageToXml(schema, body, TRUE)
             /\ written[Len(written) - 1] = EndEv(SoapenvName("Body"))
             /\ written[Len(written)] = EndEv(SoapenvName("Envelope"))
    /\ parses > 0
          => \A evs \in {ReadEvents(response, <<>>)} :
                 FramingOfResponse(schema, evs, result)

\* a response with a comment inside the envelope failed, and one with an XML
\* declaration before it was read
EnvelopeFramingSeen ==
    /\ parses > 0
    /\ \/ response = Answer("comment", wire.body) /\ ~result.ok
       \/ response = Answer("decl", wire.body) /\ result.ok /\ result.val = body

\* C5: each call of send is one POST to the client's URL with Content-Type
\* text/xml and the serialized envelope as body, then at most one parse of
\* the response; a transport failure or a response that does not parse ends
\* the call, and the program, with no second request and no result.
OnePostPerSend ==
    /\ posts = sends
    /\ posts > 0 => wire = [url |-> ClientUrl, content_type |-> "text/xml",
                            body |-> to_request(schema, body)]
    /\ pc = "idle" => posts = 0 /\ parses = 0
    /\ pc = "inflight" => parses = posts - 1
    /\ pc = "returned" => parses = posts /\ result.ok
    /\ pc = "panicked" => \/ parses = posts - 1
                          \/ parses = posts /\ ~result.ok

\* a second call whose transport failed after a first call that returned
OnePostPerSendSeen ==
    /\ pc = "panicked"
    /\ sends = 2
    /\ posts = 2
    /\ parses = 1
    /\ result.ok

(***************************************************************************)
(* The WSDL parser (wsdl/src/parser.rs, wsdl/src/types.rs).                *)
(*                                                                         *)
(* Strings are TLA+ strings.  The strings of the inputs that hold a ':'    *)
(* are listed with their split(':') in Colon; every other string has one   *)
(* segment.  An Option is the empty sequence or a one-element sequence.    *)
(***************************************************************************)
None == <<>>
Some(v) == <<v>>
Unwrap(o) == o[1]

XsdUri == "http://www.w3.org/2001/XMLSchema"
TargetUri == "urn:example"
OtherUri == "urn:other"

Colon ==
    [s \in {"xs:schema", "xmlns:xs", "xmlns:p", "xmlns:tns", "tns:A", "tns:base",
            "xs:int", "xs:string", "p:A", "q:A", "soap:binding", "a:b:c"} |->
        CASE s = "xs:schema" -> <<"xs", "schema">>
          [] s = "xmlns:xs" -> <<"xmlns", "xs">>
          [] s = "xmlns:p" -> <<"xmlns", "p">>
          [] s = "xmlns:tns" -> <<"xmlns", "tns">>
          [] s = "tns:A" -> <<"tns", "A">>
          [] s = "tns:base" -> <<"tns", "base">>
          [] s = "xs:int" -> <<"xs", "int">>
          [] s = "xs:string" -> <<"xs", "string">>
          [] s = "p:A" -> <<"p", "A">>
          [] s = "q:A" -> <<"q", "A">>
          [] s = "soap:binding" -> <<"soap", "binding">>
          [] s = "a:b:c" -> <<"a", "b", "c">>]

\* prefixed_name.split(':')
Segments(s) == IF s \in DOMAIN Colon THEN Colon[s] ELSE <<s>>

\* split_namespaced_name: (Some(first), second) or (None, first)
SplitSegments(segs) ==
    IF Len(segs) >= 2 THEN [prefix |-> Some(segs[1]), name |-> segs[2]]
    ELSE [prefix |-> None, name |-> segs[1]]

split_namespaced_name(prefixed_name) == SplitSegments(Segments(prefixed_name))

\* an attribute and a Start or Empty event; ns is the namespace the reader
\* resolved the element's name to
Attr(key, value) == [key |-> key, value |-> value]
StartTag(name, attrs) == [name |-> name, attrs |-> attrs]

\* get_attributes(reader, attributes, [name]): the value of the last
\* attribute whose whole key is `name`
AttrIndices(attrs, name) == {i \in 1..Len(attrs) : attrs[i].key = name}

get_attribute(attrs, name) ==
    IF AttrIndices(attrs, name) = {} THEN None
    ELSE Some(attrs[CHOOSE i \in AttrIndices(attrs, name) :
                        \A j \in AttrIndices(attrs, name) : j <= i].value)

\* Namespaces::index_of, add_or_get; indices count from 0
index_of(table, namespace) ==
    IF \E i \in 1..Len(table) : table[i] = namespace
    THEN Some((CHOOSE i \in 1..Len(table) :
                  table[i] = namespace /\ \A j \in 1..(i - 1) : table[j] # namespace) - 1)
    ELSE None

\* a table every call appends to
AddAlways(table, namespace) == Append(table, namespace)

add_or_get(table, namespace) ==
    IF index_of(table, namespace) = None THEN Append(table, namespace) ELSE table

\* the index add_or_get returns
Returned(table, namespace) ==
    IF index_of(table, namespace) = None THEN Len(table)
    ELSE Unwrap(index_of(table, namespace))

\* a name whose index is always that of a new entry
NamespacedNameAppended(table, namespace, name) == NN(Len(table), name)

\* NamespacedName::new, on the table add_or_get left
NamespacedNameNew(table, namespace, name) ==
    NN(Unwrap(index_of(add_or_get(table, namespace), namespace)), name)

\* HashMap::insert on CurrentNamespaces.namespaces, keyed by Option<String>
MapInsert(map, key, value) ==
    [k \in DOMAIN map \cup {key} |-> IF k = key THEN value ELSE map[k]]

\* CurrentNamespaces
NoCurrentNamespaces == [target |-> <<>>, namespaces |-> <<>>]

push_target_namespace(cur, namespace) ==
    [cur EXCEPT !.target = Append(cur.target, namespace)]

\* a close that leaves the target namespace on the stack
KeepTargetNamespace(cur) == cur

pop_target_namespace(cur) ==
    [cur EXCEPT !.target = IF cur.target = <<>> THEN <<>>
                           ELSE SubSeq(cur.target, 1, Len(cur.target) - 1)]

add_namespace_prefix(cur, prefix, namespace) ==
    [cur EXCEPT !.namespaces = MapInsert(cur.namespaces, prefix, namespace)]

\* the namespace resolve_namespace finds for a split name: the current target
\* for the prefix tns, else the URI last bound to the prefix; None where the
\* code reaches unimplemented!()
NamespaceOfSplit(cur, sp) ==
    IF sp.prefix = Some("tns")
    THEN IF cur.target = <<>> THEN None ELSE Some(cur.target[Len(cur.target)])
    ELSE IF sp.prefix \in DOMAIN cur.namespaces THEN Some(cur.namespaces[sp.prefix])
    ELSE None

NamespaceOf(cur, prefixed_name) ==
    NamespaceOfSplit(cur, split_namespaced_name(prefixed_name))

\* target_namespaced's namespace: the top of the target stack
TargetOf(cur) == IF cur.target = <<>> THEN None ELSE Some(cur.target[Len(cur.target)])

\* the xmlns:prefix attributes of a start tag, added in document order
RECURSIVE AddPrefixes(_, _)
AddPrefixes(cur, attrs) ==
    IF attrs = <<>> THEN cur
    ELSE AddPrefixes(
             IF split_namespaced_name(Head(attrs).key).prefix = Some("xmlns")
             THEN add_namespace_prefix(cur,
                                       Some(split_namespaced_name(Head(attrs).key).name),
                                       Head(attrs).value)
             ELSE cur,
             Tail(attrs))

(***************************************************************************)
(* enum ParseState, and the values the parser folds into the Definition.   *)
(***************************************************************************)
Definitions == [s |-> "Definitions"]
Types == [s |-> "Types"]
Schema == [s |-> "Schema"]
ElementState(name, kind) == [s |-> "Element", name |-> name, kind |-> kind]
ComplexType(name, kind) == [s |-> "ComplexType", name |-> name, kind |-> kind]
ComplexContent(fields) == [s |-> "ComplexContent", fields |-> fields]
ComplexExtension(fields) == [s |-> "ComplexExtension", fields |-> fields]
SimpleContent(ty) == [s |-> "SimpleContent", ty |-> ty]
SimpleExtension(ty) == [s |-> "SimpleExtension", ty |-> ty]
Sequence(fields) == [s |-> "Sequence", fields |-> fields]
SequenceElement(name, ty, inner) ==
    [s |-> "SequenceElement", name |-> name, ty |-> ty, inner |-> inner]
SimpleType(name, ty) == [s |-> "SimpleType", name |-> name, ty |-> ty]
Restriction(ty) == [s |-> "Restriction", ty |-> ty]
MessageState(name, parts) == [s |-> "Message", name |-> name, parts |-> parts]
Part(name, element) == [s |-> "Part", name |-> name, element |-> element]
PortTypeState(name, operations) ==
    [s |-> "PortType", name |-> name, operations |-> operations]
OperationState(name, documentation, inp, outp) ==
    [s |-> "Operation", name |-> name, documentation |-> documentation,
     input |-> inp, output |-> outp]
Documentation(text) == [s |-> "Documentation", text |-> text]
Input(message) == [s |-> "Input", message |-> message]
Output(message) == [s |-> "Output", message |-> message]
BindingState(name, ty, transport, operations) ==
    [s |-> "Binding", name |-> name, ty |-> ty, transport |-> transport,
     operations |-> operations]
Transport(transport) == [s |-> "Transport", transport |-> transport]
BindingOperationState(name, action, style, inp, outp) ==
    [s |-> "BindingOperation", name |-> name, action |-> action, style |-> style,
     input |-> inp, output |-> outp]
OperationAction(action, style) ==
    [s |-> "OperationAction", action |-> action, style |-> style]
BindingInput(b) == [s |-> "BindingInput", body |-> b]
BindingOutput(b) == [s |-> "BindingOutput", body |-> b]
BindingBody(b) == [s |-> "BindingBody", body |-> b]
ServiceState(name, ports) == [s |-> "Service", name |-> name, ports |-> ports]
PortState(name, binding, address) ==
    [s |-> "Port", name |-> name, binding |-> binding, address |-> address]
Address(location) == [s |-> "Address", location |-> location]
Import(namespace) == [s |-> "Import", namespace |-> namespace]
Other(name) == [s |-> "Other", name |-> name]

Operation(name, inp, outp, documentation) ==
    [name |-> name, input |-> inp, output |-> outp, documentation |-> documentation]
PortType(name, operations) == [name |-> name, operations |-> operations]
BindingOperation(name, action, style, inp, outp) ==
    [name |-> name, action |-> action, style |-> style, input |-> inp, output |-> outp]
Binding(name, ty, transport, operations) ==
    [name |-> name, ty |-> ty, transport |-> transport, operations |-> operations]
Port(name, binding, location) ==
    [name |-> name, binding |-> binding, location |-> location]
Service(name, ports) == [name |-> name, ports |-> ports]

\* Definition::default()
NoDefinition ==
    [types |-> <<>>, messages |-> <<>>, port_types |-> <<>>, bindings |-> <<>>,
     services |-> <<>>]

(***************************************************************************)
(* One handler call works on m = [stack, definition, namespaces, cur, out, *)
(* imp]: the stack of the running parse_xml, the Parser's fields, and how  *)
(* the call ended: "ok", "panic" (unimplemented!() or an unwrap of None),  *)
(* or "import" (parse_url is to be called with imp.location, after which   *)
(* imp.state and Import{imp.namespace} are pushed).                        *)
(***************************************************************************)
NoImport == [location |-> "", namespace |-> None, state |-> None]

Machine(stack, def, table, cur) ==
    [stack |-> stack, definition |-> def, namespaces |-> table, cur |-> cur,
     out |-> "ok", imp |-> NoImport]

Panic(m) == [m EXCEPT !.out = "panic"]

\* stack.pop()
TopOf(stack) == IF stack = <<>> THEN None ELSE Some(stack[Len(stack)])
Popped(stack) == IF stack = <<>> THEN <<>> ELSE SubSeq(stack, 1, Len(stack) - 1)

\* a handle_start that puts new_state in the place of state
EnterReplacing(m, state, new_state) == [m EXCEPT !.stack = m.stack \o <<new_state>>]

\* stack.extend(state); stack.extend(new_state)
Enter(m, state, new_state) == [m EXCEPT !.stack = m.stack \o state \o <<new_state>>]

\* self.resolve_namespace(prefixed_name), and the Parser after it
CanResolve(m, prefixed_name) == NamespaceOf(m.cur, prefixed_name) # None

resolve_namespace(m, prefixed_name) ==
    NamespacedNameNew(m.namespaces, Unwrap(NamespaceOf(m.cur, prefixed_name)),
                      split_namespaced_name(prefixed_name).name)

Resolving(m, prefixed_name) ==
    [m EXCEPT !.namespaces = add_or_get(@, Unwrap(NamespaceOf(m.cur, prefixed_name)))]

\* self.target_namespaced(name), and the Parser after it
HasTarget(m) == TargetOf(m.cur) # None

target_namespaced(m, name) ==
    NamespacedNameNew(m.namespaces, Unwrap(TargetOf(m.cur)), name)

Targeting(m) == [m EXCEPT !.namespaces = add_or_get(@, Unwrap(TargetOf(m.cur)))]

\* a start tag with the mandatory attribute `name`: the new state is F(value)
EnterWith(m, state, attrs, name, F(_)) ==
    IF get_attribute(attrs, name) = None THEN Panic(m)
    ELSE Enter(m, state, F(Unwrap(get_attribute(attrs, name))))

\* a start tag with the mandatory reference `name`: the new state is
\* F(resolve_namespace(value))
EnterResolved(m, state, attrs, name, F(_)) ==
    IF get_attribute(attrs, name) = None THEN Panic(m)
    ELSE IF ~CanResolve(m, Unwrap(get_attribute(attrs, name))) THEN Panic(m)
    ELSE Enter(Resolving(m, Unwrap(get_attribute(attrs, name))), state,
               F(resolve_namespace(m, Unwrap(get_attribute(attrs, name)))))

\* definitions at the root
OpenDefinitions(m, state, attrs) ==
    IF get_attribute(attrs, "targetNamespace") = None THEN Panic(m)
    ELSE Enter([m EXCEPT !.cur = push_target_namespace(
                                     @, Unwrap(get_attribute(attrs, "targetNamespace")))],
               state, Definitions)

\* schema, at the root or inside types
OpenSchema(m, state, prefix, attrs, ns) ==
    IF get_attribute(attrs, "targetNamespace") = None \/ ns = None THEN Panic(m)
    ELSE Enter([m EXCEPT !.cur = add_namespace_prefix(
                                     push_target_namespace(
                                         @, Unwrap(get_attribute(attrs, "targetNamespace"))),
                                     prefix, Unwrap(ns))],
               state, Schema)

\* import and include: the location attribute is mandatory, then parse_url
OpenImport(m, state, attrs, location) ==
    IF get_attribute(attrs, location) = None THEN Panic(m)
    ELSE [m EXCEPT !.out = "import",
                   !.imp = [location |-> Unwrap(get_attribute(attrs, location)),
                            namespace |-> get_attribute(attrs, "namespace"),
                            state |-> state]]

(***************************************************************************)
(* handle_start, one operator per arm of its match on the popped state.    *)
(* A name no arm lists leaves new_state = Other(local_name).               *)
(***************************************************************************)
InNone(m, state, local_name, prefix, attrs, ns) ==
    CASE local_name = "definitions" -> OpenDefinitions(m, state, attrs)
      [] local_name = "schema" -> OpenSchema(m, state, prefix, attrs, ns)
      [] OTHER -> Enter(m, state, Other(local_name))

InDefinitions(m, state, local_name, attrs) ==
    CASE local_name = "import" -> OpenImport(m, state, attrs, "location")
      [] local_name = "types" -> Enter(m, state, Types)
      [] local_name = "message" ->
            EnterWith(m, state, attrs, "name", LAMBDA n : MessageState(n, <<>>))
      [] local_name = "portType" ->
            EnterWith(m, state, attrs, "name", LAMBDA n : PortTypeState(n, <<>>))
      [] local_name = "binding" ->
            IF get_attribute(attrs, "name") = None THEN Panic(m)
            ELSE EnterResolved(m, state, attrs, "type",
                     LAMBDA ty : BindingState(Unwrap(get_attribute(attrs, "name")), ty,
                                              None, <<>>))
      [] local_name = "service" ->
            EnterWith(m, state, attrs, "name", LAMBDA n : ServiceState(n, <<>>))
      [] OTHER -> Enter(m, state, Other(local_name))

InTypes(m, state, local_name, prefix, attrs, ns) ==
    CASE local_name = "schema" -> OpenSchema(m, state, prefix, attrs, ns)
      [] local_name = "import" -> OpenImport(m, state, attrs, "schemaLocation")
      [] OTHER -> Enter(m, state, Other(local_name))

\* a top-level element: name is mandatory, type is optional
OpenElement(m, state, attrs) ==
    IF get_attribute(attrs, "name") = None THEN Panic(m)
    ELSE IF get_attribute(attrs, "type") = None
    THEN Enter(m, state, ElementState(Unwrap(get_attribute(attrs, "name")), None))
    ELSE EnterResolved(m, state, attrs, "type",
             LAMBDA ty : ElementState(Unwrap(get_attribute(attrs, "name")),
                                      Some(Alias(ty))))

InSchema(m, state, local_name, attrs) ==
    CASE local_name = "element" -> OpenElement(m, state, attrs)
      [] local_name = "complexType" ->
            EnterWith(m, state, attrs, "name", LAMBDA n : ComplexType(Some(n), None))
      [] local_name = "simpleType" ->
            EnterWith(m, state, attrs, "name", LAMBDA n : SimpleType(n, None))
      [] local_name \in {"include", "import"} ->
            OpenImport(m, state, attrs, "schemaLocation")
      [] OTHER -> Enter(m, state, Other(local_name))

InElement(m, state, local_name) ==
    CASE local_name = "complexType" -> Enter(m, state, ComplexType(None, None))
      [] OTHER -> Enter(m, state, Other(local_name))

InComplexType(m, state, local_name) ==
    CASE local_name = "sequence" -> Enter(m, state, Sequence(<<>>))
      [] local_name = "simpleContent" -> Enter(m, state, SimpleContent(None))
      [] local_name = "complexContent" -> Enter(m, state, ComplexContent(<<>>))
      [] OTHER -> Enter(m, state, Other(local_name))

\* extension inside complexContent: base, then the field named tns:base
OpenComplexExtension(m, state, base) ==
    IF ~CanResolve(m, base) \/ ~CanResolve(Resolving(m, base), "tns:base")
    THEN Panic(m)
    ELSE Enter(Resolving(Resolving(m, base), "tns:base"), state,
               ComplexExtension(
                   <<Field(resolve_namespace(Resolving(m, base), "tns:base"),
                           FieldType(resolve_namespace(m, base)))>>))

InComplexContent(m, state, local_name, attrs) ==
    CASE local_name = "extension" ->
            IF get_attribute(attrs, "base") = None THEN Panic(m)
            ELSE OpenComplexExtension(m, state, Unwrap(get_attribute(attrs, "base")))
      [] OTHER -> Enter(m, state, Other(local_name))

InComplexExtension(m, state, local_name) ==
    CASE local_name = "sequence" -> Enter(m, state, Sequence(<<>>))
      [] OTHER -> Enter(m, state, Other(local_name))

InSimpleContent(m, state, local_name, attrs) ==
    CASE local_name = "extension" ->
            EnterResolved(m, state, attrs, "base", LAMBDA ty : SimpleExtension(ty))
      [] OTHER -> Enter(m, state, Other(local_name))

InSimpleType(m, state, local_name, attrs) ==
    CASE local_name = "restriction" ->
            EnterResolved(m, state, attrs, "base", LAMBDA ty : Restriction(ty))
      [] OTHER -> Enter(m, state, Other(local_name))

\* an element of a sequence: name is mandatory, type is optional
OpenSequenceElement(m, state, attrs) ==
    IF get_attribute(attrs, "name") = None THEN Panic(m)
    ELSE IF get_attribute(attrs, "type") = None
    THEN Enter(m, state,
               SequenceElement(Unwrap(get_attribute(attrs, "name")), None, None))
    ELSE EnterResolved(m, state, attrs, "type",
             LAMBDA ty : SequenceElement(Unwrap(get_attribute(attrs, "name")),
                                         Some(ty), None))

InSequence(m, state, local_name, attrs) ==
    CASE local_name = "element" -> OpenSequenceElement(m, state, attrs)
      [] OTHER -> Enter(m, state, Other(local_name))

InSequenceElement(m, state, local_name) ==
    CASE local_name = "complexType" -> Enter(m, state, ComplexType(None, None))
      [] OTHER -> Enter(m, state, Other(local_name))

InMessage(m, state, local_name, attrs) ==
    CASE local_name = "part" ->
            IF get_attribute(attrs, "name") = None THEN Panic(m)
            ELSE EnterResolved(m, state, attrs, "element",
                     LAMBDA el : Part(Unwrap(get_attribute(attrs, "name")), el))
      [] OTHER -> Enter(m, state, Other(local_name))

InPortType(m, state, local_name, attrs) ==
    CASE local_name = "operation" ->
            EnterWith(m, state, attrs, "name",
                      LAMBDA n : OperationState(n, None, None, None))
      [] OTHER -> Enter(m, state, Other(local_name))

InOperation(m, state, local_name, attrs) ==
    CASE local_name = "documentation" -> Enter(m, state, Documentation(None))
      [] local_name = "input" ->
            EnterResolved(m, state, attrs, "message", LAMBDA msg : Input(msg))
      [] local_name = "output" ->
            EnterResolved(m, state, attrs, "message", LAMBDA msg : Output(msg))
      [] OTHER -> Enter(m, state, Other(local_name))

InBinding(m, state, local_name, attrs) ==
    CASE local_name = "binding" ->
            EnterWith(m, state, attrs, "transport", LAMBDA t : Transport(t))
      [] local_name = "operation" ->
            EnterWith(m, state, attrs, "name",
                      LAMBDA n : BindingOperationState(n, None, None, None, None))
      [] OTHER -> Enter(m, state, Other(local_name))

InBindingOperation(m, state, local_name, attrs) ==
    CASE local_name = "operation" ->
            IF get_attribute(attrs, "soapAction") = None THEN Panic(m)
            ELSE EnterWith(m, state, attrs, "style",
                     LAMBDA st : OperationAction(
                                     Unwrap(get_attribute(attrs, "soapAction")), st))
      [] local_name = "input" -> Enter(m, state, BindingInput(None))
      [] local_name = "output" -> Enter(m, state, BindingOutput(None))
      [] OTHER -> Enter(m, state, Other(local_name))

InBindingInputOutput(m, state, local_name, attrs) ==
    CASE local_name = "body" ->
            EnterWith(m, state, attrs, "use", LAMBDA u : BindingBody(u))
      [] OTHER -> Enter(m, state, Other(local_name))

InService(m, state, local_name, attrs) ==
    CASE local_name = "port" ->
            IF get_attribute(attrs, "name") = None THEN Panic(m)
            ELSE EnterResolved(m, state, attrs, "binding",
                     LAMBDA b : PortState(Unwrap(get_attribute(attrs, "name")), b, None))
      [] OTHER -> Enter(m, state, Other(local_name))

InPort(m, state, local_name, attrs) ==
    CASE local_name = "address" ->
            EnterWith(m, state, attrs, "location", LAMBDA l : Address(l))
      [] OTHER -> Enter(m, state, Other(local_name))

\* the match on the popped state
Opened(m, state, local_name, prefix, attrs, ns) ==
    IF state = None THEN InNone(m, state, local_name, prefix, attrs, ns)
    ELSE CASE state[1].s = "Definitions" -> InDefinitions(m, state, local_name, attrs)
           [] state[1].s = "Types" -> InTypes(m, state, local_name, prefix, attrs, ns)
           [] state[1].s = "Schema" -> InSchema(m, state, local_name, attrs)
           [] state[1].s = "Element" -> InElement(m, state, local_name)
           [] state[1].s = "ComplexType" -> InComplexType(m, state, local_name)
           [] state[1].s = "ComplexContent" ->
                 InComplexContent(m, state, local_name, attrs)
           [] state[1].s = "ComplexExtension" -> InComplexExtension(m, state, local_name)
           [] state[1].s = "SimpleContent" -> InSimpleContent(m, state, local_name, attrs)
           [] state[1].s = "SimpleType" -> InSimpleType(m, state, local_name, attrs)
           [] state[1].s = "Sequence" -> InSequence(m, state, local_name, attrs)
           [] state[1].s = "SequenceElement" -> InSequenceElement(m, state, local_name)
           [] state[1].s = "Message" -> InMessage(m, state, local_name, attrs)
           [] state[1].s = "PortType" -> InPortType(m, state, local_name, attrs)
           [] state[1].s = "Operation" -> InOperation(m, state, local_name, attrs)
           [] state[1].s = "Binding" -> InBinding(m, state, local_name, attrs)
           [] state[1].s = "BindingOperation" ->
                 InBindingOperation(m, state, local_name, attrs)
           [] state[1].s \in {"BindingInput", "BindingOutput"} ->
                 InBindingInputOutput(m, state, local_name, attrs)
           [] state[1].s = "Service" -> InService(m, state, local_name, attrs)
           [] state[1].s = "Port" -> InPort(m, state, local_name, attrs)
           [] state[1].s = "Import" -> Panic(m)
           [] OTHER -> Enter(m, state, Other(local_name))

\* handle_start(stack, reader, start, namespace_bytes, url): the state is
\* popped, the xmlns:prefix attributes are recorded, then the match
handle_start(m, start, ns) ==
    Opened([m EXCEPT !.stack = Popped(m.stack), !.cur = AddPrefixes(m.cur, start.attrs)],
           TopOf(m.stack), split_namespaced_name(start.name).name,
           split_namespaced_name(start.name).prefix, start.attrs, ns)

(***************************************************************************)
(* handle_end: finished_state and next_state are popped, the finished      *)
(* state is folded into next_state or into the Definition, and next_state  *)
(* is pushed back.                                                         *)
(***************************************************************************)
IsState(next, s) == next # None /\ next[1].s = s

\* stack.extend(next_state), next_state unchanged
Leave(m, next) == [m EXCEPT !.stack = m.stack \o next]

\* stack.extend(next_state), next_state changed to `parent`
LeaveWith(m, parent) == [m EXCEPT !.stack = Append(m.stack, parent)]

\* the finished state goes to the Definition under target_namespaced(name)
Defined(m, next, name, F(_)) ==
    IF ~HasTarget(m) THEN Panic(m)
    ELSE Leave([Targeting(m) EXCEPT !.definition = F(target_namespaced(m, name))], next)

\* the finished state goes into next_state under target_namespaced(name)
Folded(m, name, F(_)) ==
    IF ~HasTarget(m) THEN Panic(m)
    ELSE LeaveWith(Targeting(m), F(target_namespaced(m, name)))

EndElement(m, f, next) ==
    IF f.kind = None THEN Panic(m)
    ELSE Defined(m, next, f.name,
             LAMBDA nn : [m.definition EXCEPT !.types = Append(@, Type(nn, Unwrap(f.kind)))])

\* a ComplexType that is also added to the types when it is inline
EndComplexTypeDefined(m, f, next) ==
    IF IsState(next, "SequenceElement")
    THEN IF f.name = None
         THEN LeaveWith([m EXCEPT !.definition.types =
                                      Append(@, Type(NN(0, next[1].name), Unwrap(f.kind)))],
                        [next[1] EXCEPT !.ty = None, !.inner = f.kind])
         ELSE Folded(m, Unwrap(f.name),
                     LAMBDA nn : [next[1] EXCEPT !.ty = Some(nn), !.inner = f.kind])
    ELSE IF IsState(next, "Element")
    THEN IF f.name # None THEN Panic(m)
         ELSE LeaveWith(m, [next[1] EXCEPT !.kind = f.kind])
    ELSE IF f.kind = None \/ f.name = None THEN Panic(m)
    ELSE Defined(m, next, Unwrap(f.name),
             LAMBDA nn : [m.definition EXCEPT !.types = Append(@, Type(nn, Unwrap(f.kind)))])

EndComplexType(m, f, next) ==
    IF IsState(next, "SequenceElement")
    THEN IF f.name = None
         THEN LeaveWith(m, [next[1] EXCEPT !.ty = None, !.inner = f.kind])
         ELSE Folded(m, Unwrap(f.name),
                     LAMBDA nn : [next[1] EXCEPT !.ty = Some(nn), !.inner = f.kind])
    ELSE IF IsState(next, "Element")
    THEN IF f.name # None THEN Panic(m)
         ELSE LeaveWith(m, [next[1] EXCEPT !.kind = f.kind])
    ELSE IF f.kind = None \/ f.name = None THEN Panic(m)
    ELSE Defined(m, next, Unwrap(f.name),
             LAMBDA nn : [m.definition EXCEPT !.types = Append(@, Type(nn, Unwrap(f.kind)))])

EndComplexContent(m, f, next) ==
    IF IsState(next, "ComplexType") /\ next[1].kind = None
    THEN LeaveWith(m, [next[1] EXCEPT !.kind = Some(Struct(f.fields))])
    ELSE Panic(m)

EndComplexExtension(m, f, next) ==
    IF IsState(next, "ComplexContent")
    THEN LeaveWith(m, [next[1] EXCEPT !.fields = @ \o f.fields])
    ELSE Panic(m)

EndSimpleContent(m, f, next) ==
    IF IsState(next, "ComplexType") /\ next[1].kind = None /\ f.ty # None
    THEN LeaveWith(m, [next[1] EXCEPT !.kind = Some(Alias(Unwrap(f.ty)))])
    ELSE Panic(m)

EndSimpleExtension(m, f, next) ==
    IF IsState(next, "SimpleContent")
    THEN LeaveWith(m, [next[1] EXCEPT !.ty = Some(f.ty)])
    ELSE Panic(m)

\* a SimpleType that ends as an alias of its base
EndSimpleTypeAlias(m, f, next) ==
    IF f.ty = None THEN Panic(m)
    ELSE Defined(m, next, f.name,
             LAMBDA nn : [m.definition EXCEPT
                              !.types = Append(@, Type(nn, Alias(Unwrap(f.ty))))])

EndSimpleType(m, f, next) ==
    IF f.ty = None THEN Panic(m)
    ELSE Defined(m, next, f.name,
             LAMBDA nn : [m.definition EXCEPT
                              !.types = Append(@, Type(nn, Simple(Unwrap(f.ty))))])

EndRestriction(m, f, next) ==
    IF IsState(next, "SimpleType")
    THEN LeaveWith(m, [next[1] EXCEPT !.ty = Some(f.ty)])
    ELSE Panic(m)

\* a Sequence whose fields go in front of those the extension holds
EndSequenceBefore(m, f, next) ==
    IF IsState(next, "ComplexType") /\ next[1].kind = None
    THEN LeaveWith(m, [next[1] EXCEPT !.kind = Some(Struct(f.fields))])
    ELSE IF IsState(next, "ComplexExtension")
    THEN LeaveWith(m, [next[1] EXCEPT !.fields = f.fields \o @])
    ELSE Panic(m)

EndSequence(m, f, next) ==
    IF IsState(next, "ComplexType") /\ next[1].kind = None
    THEN LeaveWith(m, [next[1] EXCEPT !.kind = Some(Struct(f.fields))])
    ELSE IF IsState(next, "ComplexExtension")
    THEN LeaveWith(m, [next[1] EXCEPT !.fields = @ \o f.fields])
    ELSE Panic(m)

\* a SequenceElement whose Field goes in front of the Sequence
EndSequenceElementFirst(m, f, next) ==
    IF ~IsState(next, "Sequence") \/ (f.inner = None /\ f.ty = None) THEN Panic(m)
    ELSE Folded(m, f.name,
             LAMBDA nn : [next[1] EXCEPT
                              !.fields = <<Field(nn,
                                  IF f.inner # None THEN FieldInner(Unwrap(f.inner))
                                  ELSE FieldType(Unwrap(f.ty)))>> \o @])

EndSequenceElement(m, f, next) ==
    IF ~IsState(next, "Sequence") \/ (f.inner = None /\ f.ty = None) THEN Panic(m)
    ELSE Folded(m, f.name,
             LAMBDA nn : [next[1] EXCEPT
                              !.fields = Append(@, Field(nn,
                                  IF f.inner # None THEN FieldInner(Unwrap(f.inner))
                                  ELSE FieldType(Unwrap(f.ty))))])

EndMessage(m, f, next) ==
    Defined(m, next, f.name,
        LAMBDA nn : [m.definition EXCEPT !.messages = Append(@, Message(nn, f.parts))])

EndPart(m, f, next) ==
    IF ~IsState(next, "Message") THEN Panic(m)
    ELSE Folded(m, f.name,
             LAMBDA nn : [next[1] EXCEPT
                              !.parts = Append(@, Field(nn, FieldType(f.element)))])

EndPortType(m, f, next) ==
    Defined(m, next, f.name,
        LAMBDA nn : [m.definition EXCEPT
                         !.port_types = Append(@, PortType(nn, f.operations))])

EndOperation(m, f, next) ==
    IF ~IsState(next, "PortType") THEN Panic(m)
    ELSE Folded(m, f.name,
             LAMBDA nn : [next[1] EXCEPT
                              !.operations = Append(@, Operation(nn, f.input, f.output,
                                                                 f.documentation))])

EndDocumentation(m, f, next) ==
    IF IsState(next, "Operation")
    THEN LeaveWith(m, [next[1] EXCEPT !.documentation = f.text])
    ELSE Panic(m)

\* an Input arm without the `if input.is_none()` guard
EndInputOverwriting(m, f, next) ==
    IF IsState(next, "Operation")
    THEN LeaveWith(m, [next[1] EXCEPT !.input = Some(f.message)])
    ELSE Panic(m)

EndInput(m, f, next) ==
    IF IsState(next, "Operation") /\ next[1].input = None
    THEN LeaveWith(m, [next[1] EXCEPT !.input = Some(f.message)])
    ELSE Panic(m)

EndOutput(m, f, next) ==
    IF IsState(next, "Operation") /\ next[1].output = None
    THEN LeaveWith(m, [next[1] EXCEPT !.output = Some(f.message)])
    ELSE Panic(m)

EndTransport(m, f, next) ==
    IF IsState(next, "Binding") /\ next[1].transport = None
    THEN LeaveWith(m, [next[1] EXCEPT !.transport = Some(f.transport)])
    ELSE Panic(m)

EndBinding(m, f, next) ==
    IF f.transport = None THEN Panic(m)
    ELSE Defined(m, next, f.name,
             LAMBDA nn : [m.definition EXCEPT
                              !.bindings = Append(@, Binding(nn, f.ty, Unwrap(f.transport),
                                                             f.operations))])

EndBindingOperation(m, f, next) ==
    IF ~IsState(next, "Binding") \/ f.action = None \/ f.style = None THEN Panic(m)
    ELSE Folded(m, f.name,
             LAMBDA nn : [next[1] EXCEPT
                              !.operations = Append(@,
                                  BindingOperation(nn, Unwrap(f.action), Unwrap(f.style),
                                                   f.input, f.output))])

EndOperationAction(m, f, next) ==
    IF IsState(next, "BindingOperation")
    THEN LeaveWith(m, [next[1] EXCEPT !.action = Some(f.action), !.style = Some(f.style)])
    ELSE Panic(m)

EndBindingInput(m, f, next) ==
    IF IsState(next, "BindingOperation")
    THEN LeaveWith(m, [next[1] EXCEPT !.input = f.body])
    ELSE Panic(m)

EndBindingOutput(m, f, next) ==
    IF IsState(next, "BindingOperation")
    THEN LeaveWith(m, [next[1] EXCEPT !.output = f.body])
    ELSE Panic(m)

EndBindingBody(m, f, next) ==
    IF IsState(next, "BindingInput") \/ IsState(next, "BindingOutput")
    THEN LeaveWith(m, [next[1] EXCEPT !.body = Some(f.body)])
    ELSE Panic(m)

EndService(m, f, next) ==
    Defined(m, next, f.name,
        LAMBDA nn : [m.definition EXCEPT !.services = Append(@, Service(nn, f.ports))])

\* a close of port that takes an empty location when no address was seen
EndPortDefault(m, f, next) ==
    IF ~IsState(next, "Service") THEN Panic(m)
    ELSE Folded(m, f.name,
             LAMBDA nn : [next[1] EXCEPT
                              !.ports = Append(@, Port(nn, f.binding,
                                  IF f.address = None THEN "" ELSE Unwrap(f.address)))])

EndPort(m, f, next) ==
    IF ~IsState(next, "Service") \/ f.address = None THEN Panic(m)
    ELSE Folded(m, f.name,
             LAMBDA nn : [next[1] EXCEPT
                              !.ports = Append(@, Port(nn, f.binding, Unwrap(f.address)))])

EndAddress(m, f, next) ==
    IF IsState(next, "Port")
    THEN LeaveWith(m, [next[1] EXCEPT !.address = Some(f.location)])
    ELSE Panic(m)

\* the match on finished_state
Finished(m, f, next) ==
    CASE f.s \in {"Definitions", "Schema"} ->
            Leave([m EXCEPT !.cur = pop_target_namespace(@)], next)
      [] f.s = "Element" -> EndElement(m, f, next)
      [] f.s = "ComplexType" -> EndComplexType(m, f, next)
      [] f.s = "ComplexContent" -> EndComplexContent(m, f, next)
      [] f.s = "ComplexExtension" -> EndComplexExtension(m, f, next)
      [] f.s = "SimpleContent" -> EndSimpleContent(m, f, next)
      [] f.s = "SimpleExtension" -> EndSimpleExtension(m, f, next)
      [] f.s = "SimpleType" -> EndSimpleType(m, f, next)
      [] f.s = "Restriction" -> EndRestriction(m, f, next)
      [] f.s = "Sequence" -> EndSequence(m, f, next)
      [] f.s = "SequenceElement" -> EndSequenceElement(m, f, next)
      [] f.s = "Message" -> EndMessage(m, f, next)
      [] f.s = "Part" -> EndPart(m, f, next)
      [] f.s = "PortType" -> EndPortType(m, f, next)
      [] f.s = "Operation" -> EndOperation(m, f, next)
      [] f.s = "Documentation" -> EndDocumentation(m, f, next)
      [] f.s = "Input" -> EndInput(m, f, next)
      [] f.s = "Output" -> EndOutput(m, f, next)
      [] f.s = "Transport" -> EndTransport(m, f, next)
      [] f.s = "Binding" -> EndBinding(m, f, next)
      [] f.s = "BindingOperation" -> EndBindingOperation(m, f, next)
      [] f.s = "OperationAction" -> EndOperationAction(m, f, next)
      [] f.s = "BindingInput" -> EndBindingInput(m, f, next)
      [] f.s = "BindingOutput" -> EndBindingOutput(m, f, next)
      [] f.s = "BindingBody" -> EndBindingBody(m, f, next)
      [] f.s = "Service" -> EndService(m, f, next)
      [] f.s = "Port" -> EndPort(m, f, next)
      [] f.s = "Address" -> EndAddress(m, f, next)
      [] OTHER -> Leave(m, next)

\* handle_end(stack)
handle_end(m) ==
    IF m.stack = <<>> THEN m
    ELSE Finished([m EXCEPT !.stack = Popped(Popped(m.stack))],
                  m.stack[Len(m.stack)], TopOf(Popped(m.stack)))

\* a handle_text that keeps the first text of a Documentation
TextKeptOnce(m, text) ==
    IF m.stack # <<>> /\ m.stack[Len(m.stack)].s = "Documentation"
          /\ m.stack[Len(m.stack)].text = None
    THEN [m EXCEPT !.stack[Len(m.stack)].text = Some(text)]
    ELSE m

\* handle_text(stack, reader, text): only a Documentation on top keeps it
handle_text(m, text) ==
    IF m.stack # <<>> /\ m.stack[Len(m.stack)].s = "Documentation"
    THEN [m EXCEPT !.stack[Len(m.stack)].text = Some(text)]
    ELSE m

(***************************************************************************)
(* The inputs of parse: URLs, and the events a Reader returns.             *)
(***************************************************************************)
MaxEvents == 5
MaxCalls == 3

Url(scheme, path) == [scheme |-> scheme, path |-> path]
NoUrl == Url("", <<>>)

RootUrls == {Url("file", <<"dir", "a.wsdl">>), Url("http", <<"dir", "a.wsdl">>),
             Url("https", <<"dir", "a.wsdl">>), Url("ftp", <<"dir", "a.wsdl">>)}

\* the location strings that are URLs of their own
AbsoluteLocations == [l \in {"ftp://h/b.wsdl"} |-> Url("ftp", <<"b.wsdl">>)]

\* a location Url::join rejects
BadLocations == {"http://["}

\* the path segments of the relative locations
RelativePaths ==
    [l \in {"a.wsdl", "b.wsdl", "c.wsdl", "b.xsd", "sub/b.wsdl"} |->
        IF l = "sub/b.wsdl" THEN <<"sub", "b.wsdl">> ELSE <<l>>]

\* Url::join: an absolute location stands for itself, a relative one
\* replaces the last segment of the base's path
Join(base, location) ==
    IF location \in DOMAIN AbsoluteLocations THEN AbsoluteLocations[location]
    ELSE Url(base.scheme, SubSeq(base.path, 1, Len(base.path) - 1)
                              \o RelativePaths[location])

\* the schemes of a parse_url with an arm for ftp as well
SchemesWithFtp == {"file", "http", "https", "ftp"}

\* the schemes parse_url has an arm for
SupportedSchemes == {"file", "http", "https"}

\* what parse_url can fail with before parse_xml starts on the document
FetchErrors(url) ==
    IF url.scheme = "file" THEN {"PathConversionError", "FileOpenError"}
    ELSE {"ReqwestError"}

Without(attrs, key) == SelectSeq(attrs, LAMBDA a : a.key # key)

\* a start tag with all of `attrs`, and with each of `keys` left out
Variants(name, attrs, keys) ==
    {StartTag(name, attrs)} \cup {StartTag(name, Without(attrs, k)) : k \in keys}

Unlisted == {StartTag("annotation", <<>>)}

\* an element the states have no arm for, declaring a prefix of its own
DeclaringElements == {StartTag("annotation", <<Attr("xmlns:p", OtherUri)>>)}

\* the start tags tried when the top of the stack is `top` (None at the root
\* of a document): every element the state has an arm for, with and without
\* each attribute the arm reads, and one element it has no arm for
Menu(top) ==
    IF top = None
    THEN Variants("definitions",
                  <<Attr("xmlns:xs", XsdUri), Attr("xmlns:tns", TargetUri),
                    Attr("targetNamespace", TargetUri)>>,
                  {"targetNamespace"})
         \cup Variants("xs:schema",
                       <<Attr("xmlns:xs", XsdUri), Attr("xmlns:tns", TargetUri),
                         Attr("xmlns:p", TargetUri), Attr("targetNamespace", TargetUri)>>,
                       {"targetNamespace", "xmlns:xs"})
         \cup Unlisted
    ELSE CASE top[1].s = "Definitions" ->
                UNION {Variants("import", <<Attr("location", l)>>, {"location"}) :
                          l \in {"sub/b.wsdl", "ftp://h/b.wsdl", "http://["}}
                \cup {StartTag("types", <<>>)}
                \cup Variants("message", <<Attr("name", "A")>>, {"name"})
                \cup Variants("portType", <<Attr("name", "A")>>, {"name"})
                \cup Variants("binding", <<Attr("name", "A"), Attr("type", "tns:A")>>,
                              {"name", "type"})
                \cup {StartTag("binding", <<Attr("name", "A"), Attr("type", "p:A")>>)}
                \cup Variants("service", <<Attr("name", "A")>>, {"name"})
                \cup Unlisted
           [] top[1].s = "Types" ->
                Variants("xs:schema", <<Attr("targetNamespace", OtherUri)>>,
                         {"targetNamespace"})
                \cup Variants("import", <<Attr("schemaLocation", "b.xsd")>>,
                              {"schemaLocation"})
                \cup Unlisted
           [] top[1].s = "Schema" ->
                Variants("element", <<Attr("name", "A"), Attr("type", "xs:int")>>,
                         {"name", "type"})
                \cup {StartTag("element", <<Attr("name", "A"), Attr("type", ty)>>) :
                          ty \in {"tns:A", "p:A"}}
                \cup DeclaringElements
                \cup Variants("complexType", <<Attr("name", "A")>>, {"name"})
                \cup Variants("simpleType", <<Attr("name", "A")>>, {"name"})
                \cup Variants("include", <<Attr("schemaLocation", "b.xsd")>>,
                              {"schemaLocation"})
                \cup Unlisted
           [] top[1].s \in {"Element", "SequenceElement"} ->
                {StartTag("complexType", <<>>)} \cup Unlisted
           [] top[1].s = "ComplexType" ->
                {StartTag("sequence", <<>>), StartTag("simpleContent", <<>>),
                 StartTag("complexContent", <<>>)} \cup Unlisted
           [] top[1].s \in {"ComplexContent", "SimpleContent"} ->
                Variants("extension", <<Attr("base", "tns:A")>>, {"base"}) \cup Unlisted
           [] top[1].s = "ComplexExtension" -> {StartTag("sequence", <<>>)} \cup Unlisted
           [] top[1].s = "SimpleType" ->
                Variants("restriction", <<Attr("base", "xs:int")>>, {"base"})
                \cup Unlisted
           [] top[1].s = "Sequence" ->
                Variants("element", <<Attr("name", "A"), Attr("type", "xs:int")>>,
                         {"name", "type"})
                \cup Unlisted
           [] top[1].s = "Message" ->
                Variants("part", <<Attr("name", "A"), Attr("element", "tns:A")>>,
                         {"name", "element"})
                \cup {StartTag("part", <<Attr("name", "A"), Attr("element", "q:A")>>)}
                \cup Unlisted
           [] top[1].s = "PortType" ->
                Variants("operation", <<Attr("name", "A")>>, {"name"}) \cup Unlisted
           [] top[1].s = "Operation" ->
                {StartTag("documentation", <<>>)}
                \cup Variants("input", <<Attr("message", "tns:A")>>, {"message"})
                \cup Variants("output", <<Attr("message", "tns:A")>>, {"message"})
                \cup Unlisted
           [] top[1].s = "Binding" ->
                Variants("soap:binding", <<Attr("transport", "http")>>, {"transport"})
                \cup Variants("operation", <<Attr("name", "A")>>, {"name"})
                \cup Unlisted
           [] top[1].s = "BindingOperation" ->
                Variants("operation", <<Attr("soapAction", "A"), Attr("style", "document")>>,
                         {"soapAction", "style"})
                \cup {StartTag("input", <<>>), StartTag("output", <<>>)}
                \cup Unlisted
           [] top[1].s \in {"BindingInput", "BindingOutput"} ->
                Variants("body", <<Attr("use", "literal")>>, {"use"}) \cup Unlisted
           [] top[1].s = "Service" ->
                Variants("port", <<Attr("name", "A"), Attr("binding", "tns:A")>>,
                         {"name", "binding"})
                \cup Unlisted
           [] top[1].s = "Port" ->
                Variants("address", <<Attr("location", "http://h/svc")>>, {"location"})
                \cup Unlisted
           [] top[1].s = "Other" ->
                Variants("message", <<Attr("name", "A")>>, {"name"}) \cup Unlisted
           [] OTHER -> Unlisted

Texts == {"text"}

(***************************************************************************)
(* quick_xml's namespace resolution in read_namespaced_event: the          *)
(* namespace of an element's name is the value of the innermost xmlns      *)
(* declaration of its prefix among the open elements and the element       *)
(* itself.  nsbuf holds the declarations of each open element.             *)
(***************************************************************************)
IsDeclaration(a) ==
    a.key = "xmlns" \/ split_namespaced_name(a.key).prefix = Some("xmlns")

DeclaredPrefix(a) ==
    IF a.key = "xmlns" THEN None ELSE Some(split_namespaced_name(a.key).name)

Declarations(attrs) == SelectSeq(attrs, IsDeclaration)

RECURSIVE Flatten(_)
Flatten(levels) == IF levels = <<>> THEN <<>> ELSE Head(levels) \o Flatten(Tail(levels))

Bindings(decls, prefix) == {i \in 1..Len(decls) : DeclaredPrefix(decls[i]) = prefix}

ResolveIn(decls, prefix) ==
    IF Bindings(decls, prefix) = {} THEN None
    ELSE Some(decls[CHOOSE i \in Bindings(decls, prefix) :
                        \A j \in Bindings(decls, prefix) : j <= i].value)

ElementNamespace(nsbuf, start) ==
    ResolveIn(Flatten(nsbuf) \o Declarations(start.attrs),
              split_namespaced_name(start.name).prefix)

(***************************************************************************)
(* parse, parse_url and parse_xml.  Each parse_xml activation is a frame   *)
(* of `calls`; an import suspends the handle_start that met it (pending)   *)
(* until the imported document's parse_xml returns.                        *)
(***************************************************************************)
Running == [kind |-> "running", error |-> "", detail |-> ""]
ReturnedOk == [kind |-> "Ok", error |-> "", detail |-> ""]
Err(error, detail) == [kind |-> "Err", error |-> error, detail |-> detail]
Panicked == [kind |-> "panic", error |-> "", detail |-> ""]

Frame(url) == [url |-> url, stack |-> <<>>, nsbuf |-> <<>>, pending |-> None]
Pending(state, namespace, empty) ==
    [state |-> state, namespace |-> namespace, empty |-> empty]

Event(kind, tag, text) == [kind |-> kind, tag |-> tag, text |-> text]
NoEvent == Event("", StartTag("", <<>>), "")

\* Parser::new(url)
InitParser ==
    /\ root \in RootUrls
    /\ calls = <<>>
    /\ definition = NoDefinition
    /\ namespaces = <<>>
    /\ current_namespaces = NoCurrentNamespaces
    /\ outcome = Running
    /\ log = <<>>
    /\ opened = <<>>
    /\ last = NoEvent
    /\ nev = 0
    /\ document = <<>>
    /\ built = <<>>

ParserIdle ==
    /\ root = NoUrl
    /\ calls = <<>>
    /\ definition = NoDefinition
    /\ namespaces = <<>>
    /\ current_namespaces = NoCurrentNamespaces
    /\ outcome = ReturnedOk
    /\ log = <<>>
    /\ opened = <<>>
    /\ last = NoEvent
    /\ nev = 0
    /\ document = <<>>
    /\ built = <<>>

\* the Parser as the running handler sees it
Current ==
    Machine(calls[Len(calls)].stack, definition, namespaces, current_namespaces)

\* a panic, or an Err that every caller passes up with `?`: parse ends
Abort(o) ==
    /\ outcome' = o
    /\ UNCHANGED <<calls, definition, namespaces, current_namespaces, opened>>

\* the handler returned Ok(()): its effects on the Parser and on the frame
Commit(m, nsbuf) ==
    IF m.out = "panic" THEN Abort(Panicked)
    ELSE /\ calls' = [calls EXCEPT ![Len(calls)].stack = m.stack,
                                   ![Len(calls)].nsbuf = nsbuf]
         /\ definition' = m.definition
         /\ namespaces' = m.namespaces
         /\ current_namespaces' = m.cur
         /\ UNCHANGED <<outcome, opened>>

\* parse_url(url) called with `frames` suspended below it: an unsupported
\* scheme and a failed fetch are Errs, else parse_xml starts on the document
parse_url(url, fetched, frames, m) ==
    /\ log' = Append(log, url)
    /\ IF url.scheme \notin SupportedSchemes
       THEN Abort(Err("UnsupportedScheme", url.scheme))
       ELSE IF ~fetched THEN \E e \in FetchErrors(url) : Abort(Err(e, ""))
       ELSE /\ calls' = Append(frames, Frame(url))
            /\ opened' = Append(opened, url)
            /\ definition' = m.definition
            /\ namespaces' = m.namespaces
            /\ current_namespaces' = m.cur
            /\ UNCHANGED outcome

\* Parser::parse: parse_url(self.root)
Parse ==
    /\ outcome.kind = "running"
    /\ log = <<>>
    /\ \E fetched \in BOOLEAN :
          parse_url(root, fetched, <<>>,
                    Machine(<<>>, definition, namespaces, current_namespaces))
    /\ UNCHANGED <<root, document, built, last, nev, soapVars, genVars>>

\* an import arm that notes the location and goes on with the importing
\* document
ImportingSkipped(m, nsbuf, empty) ==
    IF m.imp.location \in BadLocations
    THEN Abort(Err("UrlParseError", "")) /\ UNCHANGED log
    ELSE /\ log' = Append(log, Join(root, m.imp.location))
         /\ calls' = [calls EXCEPT
                         ![Len(calls)].stack =
                             m.stack \o m.imp.state
                                 \o (IF empty THEN <<>> ELSE <<Import(m.imp.namespace)>>),
                         ![Len(calls)].nsbuf = nsbuf]
         /\ definition' = m.definition
         /\ namespaces' = m.namespaces
         /\ current_namespaces' = m.cur
         /\ UNCHANGED <<outcome, opened>>

\* a location joined to the URL of the document that holds the import
JoinedToDocument(location) == Join(calls[Len(calls)].url, location)

\* self.root.join(&location)
JoinedToRoot(location) == Join(root, location)

\* the import arm: self.parse_url(self.root.join(&location)?)?
Importing(m, nsbuf, empty) ==
    IF m.imp.location \in BadLocations
    THEN Abort(Err("UrlParseError", "")) /\ UNCHANGED log
    ELSE /\ Len(calls) < MaxCalls
         /\ \E fetched \in BOOLEAN :
               parse_url(JoinedToRoot(m.imp.location), fetched,
                         [calls EXCEPT ![Len(calls)].stack = m.stack,
                                       ![Len(calls)].nsbuf = nsbuf,
                                       ![Len(calls)].pending =
                                           Some(Pending(m.imp.state, m.imp.namespace,
                                                        empty))],
                         m)

\* the state on top of the stack of the running parse_xml
TopState == IF calls = <<>> THEN None ELSE TopOf(calls[Len(calls)].stack)

\* reader.read_namespaced_event(..) can return `event` next: the next event
\* of `document` when the document is given, else any event, the start tags
\* being those of the menu
Offers(event) ==
    IF document = <<>>
    THEN /\ nev < MaxEvents
         /\ event.kind \in {"Start", "Empty"} => event.tag \in Menu(TopState)
    ELSE /\ nev < Len(document)
         /\ document[nev + 1] = event

\* Event::Start(start) => self.handle_start(..)?
ReadStart(start) ==
    /\ outcome.kind = "running"
    /\ calls # <<>>
    /\ Offers(Event("Start", start, ""))
    /\ nev' = nev + 1
    /\ last' = Event("Start", start, "")
    /\ \E m \in {handle_start(Current, start,
                              ElementNamespace(calls[Len(calls)].nsbuf, start))} :
          IF m.out = "import"
          THEN Importing(m, Append(calls[Len(calls)].nsbuf, Declarations(start.attrs)),
                         FALSE)
          ELSE /\ Commit(m, Append(calls[Len(calls)].nsbuf, Declarations(start.attrs)))
               /\ UNCHANGED log
    /\ UNCHANGED <<root, document, built, soapVars, genVars>>

\* an Empty event whose frame stays on the stack
EmptyLeftOpen(m) == m

\* the handle_end of an Empty event, on what its handle_start left
EmptyHandled(m) == IF m.out = "panic" THEN m ELSE handle_end(m)

\* Event::Empty(start) => handle_start(..)? then handle_end(..)?
ReadEmpty(start) ==
    /\ outcome.kind = "running"
    /\ calls # <<>>
    /\ Offers(Event("Empty", start, ""))
    /\ nev' = nev + 1
    /\ last' = Event("Empty", start, "")
    /\ \E m \in {handle_start(Current, start,
                              ElementNamespace(calls[Len(calls)].nsbuf, start))} :
          IF m.out = "import" THEN Importing(m, calls[Len(calls)].nsbuf, TRUE)
          ELSE /\ \E e \in {EmptyHandled(m)} :
                      Commit(e, calls[Len(calls)].nsbuf)
               /\ UNCHANGED log
    /\ UNCHANGED <<root, document, built, soapVars, genVars>>

\* Event::End(..) => self.handle_end(..)?
ReadEnd ==
    /\ outcome.kind = "running"
    /\ calls # <<>>
    /\ calls[Len(calls)].stack # <<>>
    /\ Offers(Event("End", StartTag("", <<>>), ""))
    /\ nev' = nev + 1
    /\ last' = Event("End", StartTag("", <<>>), "")
    /\ \E m \in {handle_end(Current)} :
          Commit(m, Popped(calls[Len(calls)].nsbuf))
    /\ UNCHANGED <<root, document, built, log, soapVars, genVars>>

\* Event::Text(text) => self.handle_text(..)?
ReadText(text) ==
    /\ outcome.kind = "running"
    /\ calls # <<>>
    /\ Offers(Event("Text", StartTag("", <<>>), text))
    /\ nev' = nev + 1
    /\ last' = Event("Text", StartTag("", <<>>), text)
    /\ Commit(handle_text(Current, text), calls[Len(calls)].nsbuf)
    /\ UNCHANGED <<root, document, built, log, soapVars, genVars>>

\* Event::Decl and the events of the last arm other than Eof: nothing changes
ReadIgnored(kind) ==
    /\ outcome.kind = "running"
    /\ calls # <<>>
    /\ Offers(Event(kind, StartTag("", <<>>), ""))
    /\ nev' = nev + 1
    /\ last' = Event(kind, StartTag("", <<>>), "")
    /\ UNCHANGED <<root, document, built, calls, definition, namespaces, current_namespaces, outcome, log,
                   opened, soapVars, genVars>>

\* reader.read_namespaced_event(..)? on input that is not well-formed
ReadError ==
    /\ outcome.kind = "running"
    /\ calls # <<>>
    /\ Offers(Event("Error", StartTag("", <<>>), ""))
    /\ nev' = nev + 1
    /\ last' = Event("Error", StartTag("", <<>>), "")
    /\ Abort(Err("XmlParseError", ""))
    /\ UNCHANGED <<root, document, built, log, soapVars, genVars>>

\* the suspended handle_start goes on after parse_url returned Ok: state and
\* Import{namespace} are pushed, and for an Empty event handle_end pops the
\* Import again
Resumed(frame) ==
    [frame EXCEPT
        !.stack = frame.stack \o frame.pending[1].state
                      \o (IF frame.pending[1].empty THEN <<>>
                          ELSE <<Import(frame.pending[1].namespace)>>),
        !.pending = None]

\* Event::Eof: parse_xml returns Ok(()), to parse or to the importing handler
ReadEof ==
    /\ outcome.kind = "running"
    /\ calls # <<>>
    /\ document # <<>> => nev = Len(document)
    /\ last' = Event("Eof", StartTag("", <<>>), "")
    /\ IF Len(calls) = 1
       THEN /\ calls' = <<>>
            /\ outcome' = ReturnedOk
       ELSE /\ calls' = Append(SubSeq(calls, 1, Len(calls) - 2),
                               Resumed(calls[Len(calls) - 1]))
            /\ UNCHANGED outcome
    /\ UNCHANGED <<root, document, built, definition, namespaces, current_namespaces, log, opened, nev,
                   soapVars, genVars>>

NextParser ==
    \/ Parse
    \/ \E start \in Menu(TopState) : ReadStart(start)
    \/ \E start \in Menu(TopState) : ReadEmpty(start)
    \/ ReadEnd
    \/ \E text \in Texts : ReadText(text)
    \/ \E kind \in {"Decl", "Comment"} : ReadIgnored(kind)
    \/ ReadError
    \/ ReadEof

(***************************************************************************)
(* The code generator (codegen/src/codegen.rs).  An identifier is the      *)
(* sequence of its characters; the generated items are records of what     *)
(* the quoted code says.                                                   *)
(***************************************************************************)
MaxFields == 2
MaxRequests == 4

\* the characters of a name; a name without digits is one atom
Spelling == [n \in {"A1"} |-> <<"A", "1">>]

Spell(name) == IF name \in DOMAIN Spelling THEN Spelling[name] ELSE <<name>>

\* State::new()
NewState == [added_types |-> {}, rust_names |-> <<>>, name_counts |-> <<>>]

Named(st, ident) == [state |-> st, ident |-> ident]

\* an Occupied entry that is treated like a Vacant one: the name is numbered
\* again
NameEntryRenumbered(st, name) ==
    Named([st EXCEPT !.name_counts = MapInsert(@, name.name, st.name_counts[name.name] + 1),
                     !.rust_names =
                         MapInsert(@, name,
                                   Spell(name.name)
                                       \o FormatNat(st.name_counts[name.name] + 1))],
          Spell(name.name) \o FormatNat(st.name_counts[name.name] + 1))

\* Entry::Occupied(name_entry) => name_entry.get().clone()
NameEntryOccupied(st, name) == Named(st, st.rust_names[name])

\* a Vacant entry whose count of the local name starts at 1
NameEntryFromOne(st, name) ==
    IF name.name \in DOMAIN st.name_counts
    THEN Named([st EXCEPT !.name_counts =
                              MapInsert(@, name.name, st.name_counts[name.name] + 1),
                          !.rust_names =
                              MapInsert(@, name,
                                        Spell(name.name)
                                            \o FormatNat(st.name_counts[name.name] + 1))],
               Spell(name.name) \o FormatNat(st.name_counts[name.name] + 1))
    ELSE Named([st EXCEPT !.name_counts = MapInsert(@, name.name, 1),
                          !.rust_names = MapInsert(@, name, Spell(name.name))],
               Spell(name.name))

\* Entry::Vacant(name_entry): the count of the local name is advanced and
\* appended, or starts at 0 and the local name is used as it is
NameEntryVacant(st, name) ==
    IF name.name \in DOMAIN st.name_counts
    THEN Named([st EXCEPT !.name_counts =
                              MapInsert(@, name.name, st.name_counts[name.name] + 1),
                          !.rust_names =
                              MapInsert(@, name,
                                        Spell(name.name)
                                            \o FormatNat(st.name_counts[name.name] + 1))],
               Spell(name.name) \o FormatNat(st.name_counts[name.name] + 1))
    ELSE Named([st EXCEPT !.name_counts = MapInsert(@, name.name, 0),
                          !.rust_names = MapInsert(@, name, Spell(name.name))],
               Spell(name.name))

\* State::rust_name
rust_name(st, name) ==
    IF name \in DOMAIN st.rust_names THEN NameEntryOccupied(st, name)
    ELSE NameEntryVacant(st, name)

\* a set of emitted names that is never consulted
AlwaysNew(st, name) == TRUE

\* State::is_new_type: HashSet::insert, true when the name was not present
is_new_type(st, name) == name \notin st.added_types

Inserted(st, name) == [st EXCEPT !.added_types = @ \cup {name}]

\* what a codegen function produced: the State it left, the items, and
\* whether it returned (ok) or reached unimplemented!() / unwrap() of None
Emitted(st, out) == [state |-> st, out |-> out, ok |-> TRUE]
Unimplemented(st) == [state |-> st, out |-> <<>>, ok |-> FALSE]

\* pub #name: #ty,   with #ty a primitive or super::types::#ident
Member(name, builtin, ident) == [name |-> name, builtin |-> builtin, ident |-> ident]

\* the block writing self.#name under #xml_name
ToXmlField(name, xml_name, builtin) ==
    [name |-> name, xml_name |-> xml_name, builtin |-> builtin]

\* #name: the value read under #xml_name
FromXmlField(name, xml_name, builtin, ident) ==
    [name |-> name, xml_name |-> xml_name, builtin |-> builtin, ident |-> ident]

\* impl Codegen for wsdl::Field
RECURSIVE FieldCodegen(_, _)
FieldCodegen(st, field) ==
    IF field.ty.kind = "Type"
    THEN IF get_ty_ident(field.ty.ref.name) # "None"
         THEN Emitted(st, <<Member(field.name.name, get_ty_ident(field.ty.ref.name), <<>>)>>)
         ELSE Emitted(rust_name(st, field.ty.ref).state,
                      <<Member(field.name.name, "", rust_name(st, field.ty.ref).ident)>>)
    ELSE IF field.ty.inner.kind = "Struct" /\ Len(field.ty.inner.fields) = 1
    THEN FieldCodegen(st, Field(field.name, field.ty.inner.fields[1].ty))
    ELSE Unimplemented(st)

\* codegen_to_xml_field
RECURSIVE codegen_to_xml_field(_, _)
codegen_to_xml_field(st, field) ==
    IF field.ty.kind = "Type"
    THEN Emitted(st, <<ToXmlField(field.name.name, field.name,
                                  get_ty_ident(field.ty.ref.name) # "None")>>)
    ELSE IF field.ty.inner.kind = "Struct" /\ Len(field.ty.inner.fields) = 1
    THEN codegen_to_xml_field(st, Field(field.name, field.ty.inner.fields[1].ty))
    ELSE Unimplemented(st)

\* codegen_from_xml_field
RECURSIVE codegen_from_xml_field(_, _)
codegen_from_xml_field(st, field) ==
    IF field.ty.kind = "Type"
    THEN IF get_ty_ident(field.ty.ref.name) # "None"
         THEN Emitted(st, <<FromXmlField(field.name.name, field.name.name, TRUE, <<>>)>>)
         ELSE Emitted(rust_name(st, field.ty.ref).state,
                      <<FromXmlField(field.name.name, field.name.name, FALSE,
                                     rust_name(st, field.ty.ref).ident)>>)
    ELSE IF field.ty.inner.kind = "Struct" /\ Len(field.ty.inner.fields) = 1
    THEN codegen_from_xml_field(st, Field(field.name, field.ty.inner.fields[1].ty))
    ELSE Unimplemented(st)

\* one step of all.iter().map(..).collect(): the item `r` is added to `done`
\* with the State it left, or the panic ends the loop
Collected(r, done) ==
    IF r.ok /\ done.ok THEN Emitted(r.state, done.out \o r.out)
    ELSE Unimplemented(r.state)

\* codegen_all(fields, state)
RECURSIVE codegen_all(_, _)
codegen_all(fields, done) ==
    IF fields = <<>> \/ ~done.ok THEN done
    ELSE CHOOSE q \in {codegen_all(Tail(fields), Collected(r, done)) :
                          r \in {FieldCodegen(done.state, Head(fields))}} : TRUE

\* codegen_to_xml_fields(fields, state)
RECURSIVE codegen_to_xml_fields(_, _)
codegen_to_xml_fields(fields, done) ==
    IF fields = <<>> \/ ~done.ok THEN done
    ELSE CHOOSE q \in {codegen_to_xml_fields(Tail(fields), Collected(r, done)) :
                          r \in {codegen_to_xml_field(done.state, Head(fields))}} : TRUE

\* codegen_from_xml_fields(fields, state)
RECURSIVE codegen_from_xml_fields(_, _)
codegen_from_xml_fields(fields, done) ==
    IF fields = <<>> \/ ~done.ok THEN done
    ELSE CHOOSE q \in {codegen_from_xml_fields(Tail(fields), Collected(r, done)) :
                          r \in {codegen_from_xml_field(done.state, Head(fields))}} : TRUE

\* the items of mod types and mod messages.  xml_name is the NamespacedName
\* behind to_xml_name ("ns{idx}:{name}") and from_xml_name ("{name}")
Declaration(decl, name, xml_name, inner, target, members, to_xml, from_xml) ==
    [decl |-> decl, name |-> name, xml_name |-> xml_name, inner |-> inner,
     target |-> target, members |-> members, to_xml |-> to_xml, from_xml |-> from_xml]

\* pub struct #name(pub #inner_ty);
Newtype(name, xml_name, inner_ty) ==
    Declaration("newtype", name, xml_name, inner_ty, <<>>, <<>>, <<>>, <<>>)

\* pub struct #name { #(#member_fields)* } with its ToXml and FromXml impls
StructItem(name, xml_name, members, to_xml, from_xml) ==
    Declaration("struct", name, xml_name, "", <<>>, members, to_xml, from_xml)

\* pub type #name = #ident;  or  pub type #name = #alias;
TypeAlias(name, xml_name, builtin, target) ==
    Declaration("alias", name, xml_name, builtin, target, <<>>, <<>>, <<>>)

\* the three field loops of a struct, in the order of the code, each starting
\* from the State the one before left
StructCodegen(name, xml_name, members, fields) ==
    IF ~members.ok THEN Unimplemented(members.state)
    ELSE CHOOSE q \in
             {IF ~f.ok THEN Unimplemented(f.state)
              ELSE Emitted(f.state,
                           <<StructItem(name, xml_name, members.out, t.out, f.out)>>) :
                 t \in {codegen_to_xml_fields(fields, Emitted(members.state, <<>>))},
                 f \in {codegen_from_xml_fields(fields, Emitted(members.state, <<>>))}} :
             TRUE

\* the match on self.kind of Type::codegen, `named` being what rust_name
\* returned for the type's name
KindCodegen(named, ty) ==
    CASE ty.kind.kind = "Simple" ->
            IF get_ty_ident(ty.kind.ref.name) = "None" THEN Unimplemented(named.state)
            ELSE Emitted(named.state,
                         <<Newtype(named.ident, ty.name, get_ty_ident(ty.kind.ref.name))>>)
      [] ty.kind.kind = "Struct" ->
            StructCodegen(named.ident, ty.name,
                          codegen_all(ty.kind.fields, Emitted(named.state, <<>>)),
                          ty.kind.fields)
      [] ty.kind.kind = "Alias" ->
            IF ty.kind.ref = ty.name THEN Emitted(named.state, <<>>)
            ELSE IF get_ty_ident(ty.kind.ref.name) # "None"
            THEN Emitted(named.state,
                         <<TypeAlias(named.ident, ty.name, get_ty_ident(ty.kind.ref.name),
                                     <<>>)>>)
            ELSE Emitted(rust_name(named.state, ty.kind.ref).state,
                         <<TypeAlias(named.ident, ty.name, "",
                                     rust_name(named.state, ty.kind.ref).ident)>>)
      [] OTHER -> Unimplemented(named.state)

\* impl Codegen for wsdl::Type
TypeCodegen(st, ty) ==
    IF ~is_new_type(st, ty.name) THEN Emitted(st, <<>>)
    ELSE CHOOSE q \in {KindCodegen(named, ty) :
                          named \in {rust_name(Inserted(st, ty.name), ty.name)}} : TRUE

\* impl Codegen for wsdl::Message
MessageCodegen(st, message) ==
    CHOOSE q \in {StructCodegen(named.ident, message.name,
                                codegen_all(message.parts, Emitted(named.state, <<>>)),
                                message.parts) :
                     named \in {rust_name(st, message.name)}} : TRUE

\* codegen_all(&definition.types, state)
RECURSIVE TypesCodegen(_, _)
TypesCodegen(types, done) ==
    IF types = <<>> \/ ~done.ok THEN done
    ELSE CHOOSE q \in {TypesCodegen(Tail(types), Collected(r, done)) :
                          r \in {TypeCodegen(done.state, Head(types))}} : TRUE

\* codegen_all(&definition.messages, state)
RECURSIVE MessagesCodegen(_, _)
MessagesCodegen(messages, done) ==
    IF messages = <<>> \/ ~done.ok THEN done
    ELSE CHOOSE q \in {MessagesCodegen(Tail(messages), Collected(r, done)) :
                          r \in {MessageCodegen(done.state, Head(messages))}} : TRUE

\* the names Operation::codegen asks rust_name for, in order
OperationNames(op) == <<op.name>> \o op.input \o op.output

RECURSIVE OperationsNames(_)
OperationsNames(ops) ==
    IF ops = <<>> THEN <<>> ELSE OperationNames(Head(ops)) \o OperationsNames(Tail(ops))

\* the names Port::codegen and Service::codegen ask rust_name for, in order
RECURSIVE PortsNames(_)
PortsNames(ports) ==
    IF ports = <<>> THEN <<>>
    ELSE <<Head(ports).name>> \o OperationsNames(Head(ports).operations)
             \o PortsNames(Tail(ports))

RECURSIVE ServicesNames(_)
ServicesNames(services) ==
    IF services = <<>> THEN <<>>
    ELSE <<Head(services).name>> \o PortsNames(Head(services).ports)
             \o ServicesNames(Tail(services))

\* the State after rust_name was called for each of `names` in turn
RECURSIVE Requested(_, _)
Requested(st, names) ==
    IF names = <<>> THEN st ELSE Requested(rust_name(st, Head(names)).state, Tail(names))

\* codegen(definition, namespaces): types, then messages, then services, on
\* one State
CodegenItems(types, messages, d) ==
    [ok |-> types.ok /\ messages.ok, types |-> types.out, messages |-> messages.out,
     state |-> IF types.ok /\ messages.ok
               THEN Requested(messages.state, ServicesNames(d.services))
               ELSE messages.state]

codegen(d) ==
    CHOOSE q \in {CodegenItems(types, MessagesCodegen(d.messages,
                                                      Emitted(types.state, <<>>)), d) :
                     types \in {TypesCodegen(d.types, Emitted(NewState, <<>>))}} : TRUE

(***************************************************************************)
(* Code generation's front end (codegen/src/lib.rs, preprocessor.rs):      *)
(* from_definition runs preprocess, which resolves every port to the       *)
(* operations of its binding's portType.                                   *)
(***************************************************************************)
MaxServices == 2
MaxPorts == 2

\* Iterator::find: the first element satisfying P
Find(seq, P(_)) ==
    IF \E i \in 1..Len(seq) : P(seq[i])
    THEN Some(seq[CHOOSE i \in 1..Len(seq) :
                      P(seq[i]) /\ \A j \in 1..(i - 1) : ~P(seq[j])])
    ELSE None

\* types::Port, types::Service and types::Definition of the code generator
ResolvedPort(name, location, operations) ==
    [name |-> name, location |-> location, operations |-> operations]

\* the operations of the portType restricted to those the binding lists
BoundOperations(binding, port_type) ==
    SelectSeq(port_type.operations,
              LAMBDA op : \E i \in 1..Len(binding.operations) :
                              binding.operations[i].name = op.name)

\* the operations a resolved port gets
PortOperations(binding, port_type) == port_type.operations

\* the body of the loop over service.ports: None where the code reaches
\* unimplemented!()
ResolvePortWith(binding, port_types, port) ==
    IF Find(port_types, LAMBDA port_type : port_type.name = binding.ty) = None
    THEN None
    ELSE Some(ResolvedPort(port.name, port.location,
                  PortOperations(binding,
                      Unwrap(Find(port_types,
                                  LAMBDA port_type : port_type.name = binding.ty)))))

ResolvePort(def, port) ==
    IF Find(def.bindings, LAMBDA binding : binding.name = port.binding) = None
    THEN None
    ELSE ResolvePortWith(
             Unwrap(Find(def.bindings, LAMBDA binding : binding.name = port.binding)),
             def.port_types, port)

\* the loops over definition.services and service.ports, in order; the
\* result is None as soon as one port does not resolve
RECURSIVE ResolvePorts(_, _, _)
ResolvePorts(def, ports, done) ==
    IF ports = <<>> THEN Some(done)
    ELSE IF ResolvePort(def, Head(ports)) = None THEN None
    ELSE ResolvePorts(def, Tail(ports),
                      Append(done, Unwrap(ResolvePort(def, Head(ports)))))

RECURSIVE ResolveServices(_, _, _)
ResolveServices(def, services, done) ==
    IF services = <<>> THEN Some(done)
    ELSE IF ResolvePorts(def, Head(services).ports, <<>>) = None THEN None
    ELSE ResolveServices(def, Tail(services),
             Append(done, Service(Head(services).name,
                                  Unwrap(ResolvePorts(def, Head(services).ports, <<>>)))))

\* preprocess(definition): Some(types::Definition), or None for a panic
preprocess(def) ==
    IF ResolveServices(def, def.services, <<>>) = None THEN None
    ELSE Some([services |-> Unwrap(ResolveServices(def, def.services, <<>>)),
               messages |-> def.messages, types |-> def.types])

\* the Definitions from_definition is tried on
Op(name) == Operation(Tns(name), Some(Tns("In")), Some(Tns("Out")), None)
BindingOp(name) == BindingOperation(Tns(name), "urn:action", "document", None, None)

PortTypeTables ==
    {<<>>,
     <<PortType(Tns("PA"), <<Op("Sub"), Op("Add")>>)>>,
     <<PortType(Tns("PA"), <<Op("Add")>>), PortType(Tns("PB"), <<Op("Sub"), Op("Add")>>)>>,
     <<PortType(Tns("PA"), <<Op("Sub"), Op("Add")>>), PortType(Tns("PA"), <<Op("Add")>>)>>}

BindingTables ==
    {<<>>,
     <<Binding(Tns("BA"), Tns("PA"), "http", <<BindingOp("Add")>>)>>,
     <<Binding(Tns("BA"), Tns("PB"), "http", <<BindingOp("Add")>>),
       Binding(Tns("BB"), Tns("PA"), "http", <<>>)>>,
     <<Binding(Tns("BA"), Tns("PA"), "http", <<BindingOp("Add")>>),
       Binding(Tns("BA"), Tns("PB"), "http", <<BindingOp("Add"), BindingOp("Sub")>>)>>}

Ports == {Port(Tns("P1"), Tns("BA"), "http://h/a"), Port(Tns("P2"), Tns("BB"), "http://h/b")}

RECURSIVE SeqsUpTo(_, _)
SeqsUpTo(S, n) ==
    IF n = 0 THEN {<<>>}
    ELSE SeqsUpTo(S, n - 1) \cup {Append(q, x) : q \in SeqsUpTo(S, n - 1), x \in S}

Services == {Service(Tns("S"), ports) : ports \in SeqsUpTo(Ports, MaxPorts)}

GenInputs ==
    {[types |-> <<>>, messages |-> <<>>, port_types |-> pts, bindings |-> bs,
      services |-> ss] :
        pts \in PortTypeTables, bs \in BindingTables, ss \in SeqsUpTo(Services, MaxServices)}

\* what from_definition gave: kind is none (not called), Ok, Err or panic
Generated(kind, services, types, messages) ==
    [kind |-> kind, services |-> services, types |-> types, messages |-> messages]

NotGenerated == Generated("none", <<>>, <<>>, <<>>)

\* from_definition(definition, namespaces): preprocess, then Ok(codegen); a
\* panic of either is a panic of from_definition
Ok(d, items) ==
    IF items.ok THEN Generated("Ok", d.services, items.types, items.messages)
    ELSE Generated("panic", <<>>, <<>>, <<>>)

from_definition(def) ==
    IF preprocess(def) = None THEN Generated("panic", <<>>, <<>>, <<>>)
    ELSE CHOOSE g \in {Ok(d, codegen(d)) : d \in {Unwrap(preprocess(def))}} : TRUE

\* the State codegen ends with, when it returns
StateAfter(def) ==
    IF preprocess(def) = None THEN NewState
    ELSE CHOOSE st \in {IF items.ok THEN items.state ELSE NewState :
                            items \in {codegen(Unwrap(preprocess(def)))}} : TRUE

InitGen ==
    /\ input \in GenInputs
    /\ generated = NotGenerated
    /\ codegen_state = NewState
    /\ returned = <<>>
    /\ visited = 0

GenIdle ==
    /\ input = NoDefinition
    /\ generated = NotGenerated
    /\ codegen_state = NewState
    /\ returned = <<>>
    /\ visited = 0

FromDefinition ==
    /\ generated.kind = "none"
    /\ generated' = from_definition(input)
    /\ codegen_state' = StateAfter(input)
    /\ visited' = IF generated'.kind = "Ok" THEN Len(input.types) ELSE visited
    /\ UNCHANGED <<input, returned, soapVars, parserVars>>

NextGen == FromDefinition

(***************************************************************************)
(* from_url: parse, then from_definition on what parse returned.           *)
(***************************************************************************)
FromUrl ==
    /\ generated.kind = "none"
    /\ outcome.kind \in {"Ok", "Err"}
    /\ log # <<>>
    /\ input' = definition
    /\ generated' = IF outcome.kind = "Err" THEN Generated("Err", <<>>, <<>>, <<>>)
                    ELSE from_definition(definition)
    /\ codegen_state' = IF outcome.kind = "Err" THEN codegen_state ELSE StateAfter(definition)
    /\ visited' = IF generated'.kind = "Ok" THEN Len(definition.types) ELSE visited
    /\ UNCHANGED <<returned, soapVars, parserVars>>

(***************************************************************************)
(* State::rust_name called on one State, name after name.                  *)
(***************************************************************************)
RequestNames == {NN(0, "A"), NN(1, "A"), NN(2, "A"), NN(0, "A1"), NN(1, "B")}

Request(name, ident) == [name |-> name, ident |-> ident]

RustName(name) ==
    /\ Len(returned) < MaxRequests
    /\ codegen_state' = rust_name(codegen_state, name).state
    /\ returned' = Append(returned, Request(name, rust_name(codegen_state, name).ident))
    /\ UNCHANGED <<input, generated, visited, soapVars, parserVars>>

\* Type::codegen called on the State for a simpleType named `name`: a type
\* that is new asks rust_name for its name and is declared
TypeDeclare(name) ==
    /\ Len(returned) < MaxRequests
    /\ \E r \in {TypeCodegen(codegen_state, Type(name, Simple(NN(name.idx, "int"))))} :
          /\ codegen_state' = r.state
          /\ generated' = [generated EXCEPT !.types = @ \o r.out]
          /\ returned' = IF is_new_type(codegen_state, name)
                         THEN Append(returned,
                                     Request(name, rust_name(codegen_state, name).ident))
                         ELSE returned
    /\ UNCHANGED <<input, visited, soapVars, parserVars>>

NextNames ==
    \/ \E name \in RequestNames : RustName(name)
    \/ \E name \in RequestNames : TypeDeclare(name)

(***************************************************************************)
(* Schema documents given event by event: one top-level definition named   *)
(* T inside <xs:schema>, its sequence holding up to MaxFields elements.    *)
(***************************************************************************)
Start(name, attrs) == Event("Start", StartTag(name, attrs), "")
Empty(name, attrs) == Event("Empty", StartTag(name, attrs), "")
End == Event("End", StartTag("", <<>>), "")

SchemaRoot ==
    Start("xs:schema", <<Attr("xmlns:xs", XsdUri), Attr("xmlns:tns", TargetUri),
                         Attr("targetNamespace", TargetUri)>>)

\* <element name=.. type=../>, and an element whose type is an inline
\* complexType with a sequence of its own
Typed(name, ty) == <<Empty("element", <<Attr("name", name), Attr("type", ty)>>)>>

Inline(name, children) ==
    <<Start("element", <<Attr("name", name)>>), Start("complexType", <<>>),
      Start("sequence", <<>>)>> \o children \o <<End, End, End>>

SequenceChildren ==
    {Typed("a", "xs:int"), Typed("b", "tns:A"), Typed("c", "xs:string"),
     Inline("d", Typed("e", "xs:int")), Inline("f", <<>>)}

RECURSIVE Flat(_)
Flat(children) == IF children = <<>> THEN <<>> ELSE Head(children) \o Flat(Tail(children))

ComplexTypeDocument(children) ==
    <<SchemaRoot, Start("complexType", <<Attr("name", "T")>>), Start("sequence", <<>>)>>
        \o Flat(children) \o <<End, End, End>>

ExtensionDocument(base, children) ==
    <<SchemaRoot, Start("complexType", <<Attr("name", "T")>>),
      Start("complexContent", <<>>), Start("extension", <<Attr("base", base)>>),
      Start("sequence", <<>>)>>
        \o Flat(children) \o <<End, End, End, End, End>>

ElementDocument(children) ==
    <<SchemaRoot, Start("element", <<Attr("name", "T")>>), Start("complexType", <<>>),
      Start("sequence", <<>>)>>
        \o Flat(children) \o <<End, End, End, End>>

SimpleTypeDocument(base) ==
    <<SchemaRoot, Start("simpleType", <<Attr("name", "T")>>),
      Empty("restriction", <<Attr("base", base)>>), End, End>>

SchemaDocuments ==
    {ComplexTypeDocument(cs) : cs \in SeqsUpTo(SequenceChildren, MaxFields)}
    \cup {ExtensionDocument(base, cs) :
              base \in {"tns:A", "xs:int"}, cs \in SeqsUpTo(SequenceChildren, MaxFields)}
    \cup {ElementDocument(cs) : cs \in SeqsUpTo(SequenceChildren, MaxFields)}
    \cup {SimpleTypeDocument(base) : base \in {"xs:int", "xs:string", "tns:A"}}

\* the elements open before event i of `events`
DepthAt(events, i) ==
    Cardinality({j \in 1..(i - 1) : events[j].kind = "Start"})
        - Cardinality({j \in 1..(i - 1) : events[j].kind = "End"})

IsTag(events, i, name) ==
    events[i].kind \in {"Start", "Empty"} /\ events[i].tag.name = name

\* the first <sequence> after position p, 0 when there is none
FirstSequenceAfter(events, p) ==
    IF \E i \in (p + 1)..Len(events) : IsTag(events, i, "sequence")
    THEN CHOOSE i \in (p + 1)..Len(events) :
             /\ IsTag(events, i, "sequence")
             /\ \A j \in (p + 1)..(i - 1) : ~IsTag(events, j, "sequence")
    ELSE 0

\* the position at which the element of event p is closed
Close(events, p) ==
    IF events[p].kind = "Empty" THEN p
    ELSE CHOOSE q \in (p + 1)..Len(events) :
             /\ DepthAt(events, q + 1) = DepthAt(events, p)
             /\ \A r \in (p + 1)..(q - 1) : DepthAt(events, r + 1) > DepthAt(events, p)

\* the <element> children of the element of event q, by position, in
\* document order, and their name attributes
Children(events, q) ==
    SelectSeq([i \in 1..Len(events) |-> i],
              LAMBDA i : /\ q < i
                         /\ i < Close(events, q)
                         /\ IsTag(events, i, "element")
                         /\ DepthAt(events, i) = DepthAt(events, q) + 1)

NamesAt(events, positions) ==
    [k \in 1..Len(positions) |-> get_attribute(events[positions[k]].tag.attrs, "name")[1]]

\* the element that is open at depth s once n events are read
OpenAt(events, n, s) ==
    CHOOSE p \in 1..n : /\ events[p].kind = "Start"
                        /\ DepthAt(events, p) = s - 1
                        /\ Close(events, p) > n

\* Parser::new(url) for a root document that is given
InitDocument ==
    /\ root = Url("file", <<"dir", "a.xsd">>)
    /\ calls = <<>>
    /\ definition = NoDefinition
    /\ namespaces = <<>>
    /\ current_namespaces = NoCurrentNamespaces
    /\ outcome = Running
    /\ log = <<>>
    /\ opened = <<>>
    /\ last = NoEvent
    /\ nev = 0
    /\ document \in SchemaDocuments
    /\ built = <<>>

\* the next event of the document, if it has a start tag
NextTags ==
    IF nev < Len(document) /\ document[nev + 1].kind \in {"Start", "Empty"}
    THEN {document[nev + 1].tag} ELSE {}

NextSchema ==
    \/ Parse
    \/ \E start \in NextTags : ReadStart(start)
    \/ \E start \in NextTags : ReadEmpty(start)
    \/ ReadEnd
    \/ ReadEof
    \/ FromUrl

(***************************************************************************)
(* WSDL documents given event by event: one operation with a               *)
(* documentation element, and character data at every depth.               *)
(***************************************************************************)
MaxTexts == 2

TextEvent(text) == Event("Text", StartTag("", <<>>), text)

DocumentTexts == {"text", "more", "inner"}

\* what a documentation element holds: character data, and an element with
\* character data of its own
DocumentationItems ==
    {<<TextEvent("text")>>, <<TextEvent("more")>>,
     <<Start("annotation", <<>>), TextEvent("inner"), End>>}

OperationDocument(leading, before, items) ==
    leading
        \o <<Start("definitions", <<Attr("xmlns:tns", TargetUri),
                                    Attr("targetNamespace", TargetUri)>>),
             Start("portType", <<Attr("name", "A")>>),
             Start("operation", <<Attr("name", "A")>>)>>
        \o before \o <<Start("documentation", <<>>)>> \o Flat(items)
        \o <<End, End, End, End>>

TextDocuments ==
    {OperationDocument(leading, before, items) :
        leading \in {<<>>, <<TextEvent("text")>>},
        before \in {<<>>, <<TextEvent("more")>>},
        items \in SeqsUpTo(DocumentationItems, MaxTexts)}

InitTextDocument ==
    /\ root = Url("file", <<"dir", "a.wsdl">>)
    /\ calls = <<>>
    /\ definition = NoDefinition
    /\ namespaces = <<>>
    /\ current_namespaces = NoCurrentNamespaces
    /\ outcome = Running
    /\ log = <<>>
    /\ opened = <<>>
    /\ last = NoEvent
    /\ nev = 0
    /\ document \in TextDocuments
    /\ built = <<>>

NextText ==
    \/ Parse
    \/ \E start \in NextTags : ReadStart(start)
    \/ \E text \in DocumentTexts : ReadText(text)
    \/ ReadEnd
    \/ ReadEof

(***************************************************************************)
(* parse over a fixed set of documents: the root document is given, the    *)
(* documents it can import are those of the Library, and every activation  *)
(* of parse_xml reads the document of its URL from the start.  nev is the  *)
(* number of events the running activation has read.                       *)
(***************************************************************************)
WsdlRoot ==
    Start("definitions", <<Attr("xmlns:tns", TargetUri), Attr("targetNamespace", TargetUri)>>)

MessageElement == Empty("message", <<Attr("name", "A")>>)

\* sub/b.wsdl imports the root document, c.wsdl imports nothing
Library ==
    [path \in {<<"dir", "sub", "b.wsdl">>, <<"dir", "c.wsdl">>} |->
        IF path = <<"dir", "c.wsdl">> THEN <<WsdlRoot, MessageElement, End>>
        ELSE <<WsdlRoot, Empty("import", <<Attr("location", "a.wsdl")>>), End>>]

\* an import written as an empty element or with a start and an end tag
ImportElement(location, empty) ==
    IF empty THEN <<Empty("import", <<Attr("location", location)>>)>>
    ELSE <<Start("import", <<Attr("location", location)>>), End>>

\* root documents with one import: of themselves, of a document that imports
\* them, and of a document that imports nothing
GraphDocuments ==
    {<<WsdlRoot>> \o before \o ImportElement(location, empty) \o after \o <<End>> :
        before \in SeqsUpTo({MessageElement}, 1),
        after \in SeqsUpTo({MessageElement}, 1),
        location \in {"a.wsdl", "sub/b.wsdl", "c.wsdl"},
        empty \in BOOLEAN}

\* the document parse_url reads at `url`
DocumentAt(url) == IF url = root THEN document ELSE Library[url.path]

\* the event at which the activation of `url` is suspended
ImportAt(url) ==
    CHOOSE i \in 1..Len(DocumentAt(url)) : DocumentAt(url)[i].tag.name = "import"

\* the next event of the running activation
NextEvent ==
    IF nev < Len(DocumentAt(calls[Len(calls)].url))
    THEN DocumentAt(calls[Len(calls)].url)[nev + 1]
    ELSE Event("Eof", StartTag("", <<>>), "")

\* the recursion of parse_url found no room for another activation
Overflowed == [kind |-> "overflow", error |-> "", detail |-> ""]

InitGraph ==
    /\ root = Url("file", <<"dir", "a.wsdl">>)
    /\ calls = <<>>
    /\ definition = NoDefinition
    /\ namespaces = <<>>
    /\ current_namespaces = NoCurrentNamespaces
    /\ outcome = Running
    /\ log = <<>>
    /\ opened = <<>>
    /\ last = NoEvent
    /\ nev = 0
    /\ document \in GraphDocuments
    /\ built = <<>>

\* parse_url called from an import arm: the document is there; MaxCalls
\* activations exhaust what the process has, its open files (an Err from
\* Reader::from_file) or its call stack
GraphImporting(m, nsbuf, empty) ==
    IF Len(calls) < MaxCalls
    THEN /\ parse_url(JoinedToRoot(m.imp.location), TRUE,
                      [calls EXCEPT ![Len(calls)].stack = m.stack,
                                    ![Len(calls)].nsbuf = nsbuf,
                                    ![Len(calls)].pending =
                                        Some(Pending(m.imp.state, m.imp.namespace, empty))],
                      m)
         /\ nev' = 0
    ELSE /\ \/ Abort(Err("FileOpenError", ""))
            \/ /\ outcome' = Overflowed
               /\ UNCHANGED <<calls, definition, namespaces, current_namespaces, opened>>
         /\ nev' = nev + 1
         /\ UNCHANGED log

GraphStart ==
    /\ outcome.kind = "running"
    /\ calls # <<>>
    /\ NextEvent.kind = "Start"
    /\ last' = NextEvent
    /\ \E m \in {handle_start(Current, NextEvent.tag,
                              ElementNamespace(calls[Len(calls)].nsbuf, NextEvent.tag))} :
          IF m.out = "import"
          THEN GraphImporting(m, Append(calls[Len(calls)].nsbuf,
                                        Declarations(NextEvent.tag.attrs)), FALSE)
          ELSE /\ Commit(m, Append(calls[Len(calls)].nsbuf,
                                   Declarations(NextEvent.tag.attrs)))
               /\ nev' = nev + 1
               /\ UNCHANGED log
    /\ UNCHANGED <<root, document, built, soapVars, genVars>>

GraphEmpty ==
    /\ outcome.kind = "running"
    /\ calls # <<>>
    /\ NextEvent.kind = "Empty"
    /\ last' = NextEvent
    /\ \E m \in {handle_start(Current, NextEvent.tag,
                              ElementNamespace(calls[Len(calls)].nsbuf, NextEvent.tag))} :
          IF m.out = "import" THEN GraphImporting(m, calls[Len(calls)].nsbuf, TRUE)
          ELSE /\ Commit(EmptyHandled(m), calls[Len(calls)].nsbuf)
               /\ nev' = nev + 1
               /\ UNCHANGED log
    /\ UNCHANGED <<root, document, built, soapVars, genVars>>

GraphEnd ==
    /\ outcome.kind = "running"
    /\ calls # <<>>
    /\ NextEvent.kind = "End"
    /\ last' = NextEvent
    /\ nev' = nev + 1
    /\ Commit(handle_end(Current), Popped(calls[Len(calls)].nsbuf))
    /\ UNCHANGED <<root, document, built, log, soapVars, genVars>>

\* Event::Eof: parse_xml returns, and the importing activation reads on
\* behind its import element
GraphEof ==
    /\ outcome.kind = "running"
    /\ calls # <<>>
    /\ NextEvent.kind = "Eof"
    /\ last' = NextEvent
    /\ IF Len(calls) = 1
       THEN /\ calls' = <<>>
            /\ outcome' = ReturnedOk
            /\ nev' = nev
       ELSE /\ calls' = Append(SubSeq(calls, 1, Len(calls) - 2),
                               Resumed(calls[Len(calls) - 1]))
            /\ nev' = ImportAt(calls[Len(calls) - 1].url)
            /\ UNCHANGED outcome
    /\ UNCHANGED <<root, document, built, definition, namespaces, current_namespaces, log,
                   opened, soapVars, genVars>>

GraphParse ==
    /\ outcome.kind = "running"
    /\ log = <<>>
    /\ parse_url(root, TRUE, <<>>,
                 Machine(<<>>, definition, namespaces, current_namespaces))
    /\ UNCHANGED <<root, document, built, last, nev, soapVars, genVars>>

NextGraph ==
    \/ GraphParse
    \/ GraphStart
    \/ GraphEmpty
    \/ GraphEnd
    \/ GraphEof

(***************************************************************************)
(* Namespaces::add_or_get and NamespacedName::new called on one table,     *)
(* call after call.                                                        *)
(***************************************************************************)
MaxBuilt == 3

InternedUris == {XsdUri, TargetUri, OtherUri}
InternedLocals == {"A", "B"}

Built(uri, idx, name) == [uri |-> uri, idx |-> idx, name |-> name]

\* namespaces.add_or_get(uri)
AddOrGet(uri) ==
    /\ Len(built) < MaxBuilt
    /\ namespaces' = add_or_get(namespaces, uri)
    /\ built' = Append(built, Built(uri, Returned(namespaces, uri), NoNN))
    /\ UNCHANGED <<root, calls, definition, current_namespaces, outcome, log, opened,
                   last, nev, document, soapVars, genVars>>

\* NamespacedName::new(namespaces, uri, local)
NewName(uri, local) ==
    /\ Len(built) < MaxBuilt
    /\ namespaces' = add_or_get(namespaces, uri)
    /\ built' = Append(built, Built(uri, NamespacedNameNew(namespaces, uri, local).idx,
                                    NamespacedNameNew(namespaces, uri, local)))
    /\ UNCHANGED <<root, calls, definition, current_namespaces, outcome, log, opened,
                   last, nev, document, soapVars, genVars>>

NextInterning ==
    \/ \E uri \in InternedUris : AddOrGet(uri)
    \/ \E uri \in InternedUris, local \in InternedLocals : NewName(uri, local)

(***************************************************************************)
(* codegen_all(&definition.types, state), one Type::codegen call a step,   *)
(* on definitions that hold types only.                                    *)
(***************************************************************************)
MaxTypes == 3

\* the index of http://www.w3.org/2001/XMLSchema in these definitions
XmlSchemaIndex == 2

IntField == Field(NN(0, "f"), FieldType(NN(2, "int")))

\* <element name="A" type="tns:A"/>, <complexType name="A">,
\* <simpleType name="B">, <element name="B" type="tns:A"/>, a simpleType A
\* of another namespace, a simpleType over a type that is no primitive,
\* <simpleType name="int"> of the target namespace, and a complexType C with
\* <element name="g" type="tns:int"/> and <element name="h" type="tns:A"/>
TypeListEntries ==
    {Type(NN(0, "A"), Alias(NN(0, "A"))),
     Type(NN(0, "A"), Struct(<<IntField>>)),
     Type(NN(0, "B"), Simple(NN(2, "int"))),
     Type(NN(0, "B"), Alias(NN(0, "A"))),
     Type(NN(1, "A"), Simple(NN(2, "string"))),
     Type(NN(1, "B"), Simple(NN(0, "A"))),
     Type(NN(0, "int"), Simple(NN(XmlSchemaIndex, "string"))),
     Type(NN(0, "C"), Struct(<<Field(NN(0, "g"), FieldType(NN(0, "int"))),
                               Field(NN(0, "h"), FieldType(NN(0, "A")))>>))}

TypesInputs ==
    {[NoDefinition EXCEPT !.types = types] : types \in SeqsUpTo(TypeListEntries, MaxTypes)}

InitTypes ==
    /\ input \in TypesInputs
    /\ generated = NotGenerated
    /\ codegen_state = NewState
    /\ returned = <<>>
    /\ visited = 0

\* the next item.codegen(namespaces, state) of codegen_all, and the extend of
\* the items it returned
CodegenType ==
    /\ generated.kind = "none"
    /\ visited < Len(input.types)
    /\ \E r \in {TypeCodegen(codegen_state, input.types[visited + 1])} :
          /\ codegen_state' = r.state
          /\ generated' = IF r.ok THEN [generated EXCEPT !.types = @ \o r.out]
                          ELSE Generated("panic", <<>>, <<>>, <<>>)
    /\ visited' = visited + 1
    /\ UNCHANGED <<input, returned, soapVars, parserVars>>

\* the last type is done: from_definition returns what the calls collected
CodegenReturn ==
    /\ generated.kind = "none"
    /\ visited = Len(input.types)
    /\ generated' = from_definition(input)
    /\ codegen_state' = StateAfter(input)
    /\ UNCHANGED <<input, returned, visited, soapVars, parserVars>>

NextTypes == CodegenType \/ CodegenReturn

(***************************************************************************)
(* The specifications: each runs one component and leaves the others at    *)
(* rest.                                                                   *)
(***************************************************************************)
SoapIdle ==
    /\ schema = Calculator
    /\ body = <<>>
    /\ pc = "idle"
    /\ posts = 0
    /\ parses = 0
    /\ response = <<>>
    /\ result = NoResult
    /\ sends = 0
    /\ wire = NoRequest
    /\ written = <<>>

InitSoapClient == InitSoap /\ GenIdle /\ ParserIdle

SpecSoap == InitSoapClient /\ [][NextSoap]_vars

InitCodegen == InitGen /\ SoapIdle /\ ParserIdle

SpecGen == InitCodegen /\ [][NextGen]_vars

Init == InitParser /\ SoapIdle /\ GenIdle

Spec == Init /\ [][NextParser]_vars

InitNames == GenIdle /\ SoapIdle /\ ParserIdle

SpecNames == InitNames /\ [][NextNames]_vars

InitSchema == InitDocument /\ SoapIdle /\ GenIdle

SpecSchema == InitSchema /\ [][NextSchema]_vars

InitInterning == ParserIdle /\ SoapIdle /\ GenIdle

SpecInterning == InitInterning /\ [][NextInterning]_vars

InitTypeList == InitTypes /\ SoapIdle /\ ParserIdle

SpecTypes == InitTypeList /\ [][NextTypes]_vars

InitText == InitTextDocument /\ SoapIdle /\ GenIdle

SpecText == InitText /\ [][NextText]_vars

InitImportGraph == InitGraph /\ SoapIdle /\ GenIdle

\* parse is one sequential computation: it takes its next step
SpecGraph == InitImportGraph /\ [][NextGraph]_vars /\ WF_vars(NextGraph)

(***************************************************************************)
(* Properties of from_definition, checked under SpecGen.                   *)
(***************************************************************************)
\* the first entry of `table` named nn, as an Option
FirstNamedIn(table, nn) ==
    IF \E i \in 1..Len(table) : table[i].name = nn
    THEN Some(table[CHOOSE i \in 1..Len(table) :
                        table[i].name = nn /\ \A j \in 1..(i - 1) : table[j].name # nn])
    ELSE None

\* the port's binding and that binding's portType are both in the tables
Resolvable(def, port) ==
    /\ FirstNamedIn(def.bindings, port.binding) # None
    /\ FirstNamedIn(def.port_types, FirstNamedIn(def.bindings, port.binding)[1].ty) # None

AllPorts(def) ==
    {<<s, p>> : s \in 1..Len(def.services), p \in 1..MaxPorts + 1} \cap
    {sp \in (1..Len(def.services)) \X (1..MaxPorts + 1) :
        sp[2] <= Len(def.services[sp[1]].ports)}

\* C6: when preprocess returns, it yields the services in input order, and
\* for every port of every service, in input order, a port with the same
\* name and location whose operations are, element for element, those of the
\* portType named by the type of the binding the port names; the binding's
\* own operation list plays no part.
PortsResolveToPortTypeOperations ==
    generated.kind = "Ok"
        => /\ Len(generated.services) = Len(input.services)
           /\ \A s \in 1..Len(input.services) :
                 /\ generated.services[s].name = input.services[s].name
                 /\ Len(generated.services[s].ports) = Len(input.services[s].ports)
                 /\ \A p \in 1..Len(input.services[s].ports) :
                       /\ Resolvable(input, input.services[s].ports[p])
                       /\ generated.services[s].ports[p].name
                              = input.services[s].ports[p].name
                       /\ generated.services[s].ports[p].location
                              = input.services[s].ports[p].location
                       /\ generated.services[s].ports[p].operations
                              = FirstNamedIn(input.port_types,
                                    FirstNamedIn(input.bindings,
                                        input.services[s].ports[p].binding)[1].ty
                                    )[1].operations

\* two ports resolved through a binding whose own operation list differs
\* from its portType's
PortsResolvedSeen ==
    /\ generated.kind = "Ok"
    /\ \E s \in 1..Len(generated.services) :
          /\ Len(generated.services[s].ports) = 2
          /\ generated.services[s].ports[1].name # generated.services[s].ports[2].name
          /\ Len(generated.services[s].ports[1].operations) = 2
          /\ Len(FirstNamedIn(input.bindings,
                              input.services[s].ports[1].binding)[1].operations) = 1

\* C7: when a port names a binding that is not in definition.bindings, or
\* its binding names a portType that is not in definition.port_types,
\* from_definition returns an error (a StructuralError) and nothing else.
MissingReferenceIsAnError ==
    (/\ generated.kind # "none"
     /\ \E s \in 1..Len(input.services) :
           \E p \in 1..Len(input.services[s].ports) :
               ~Resolvable(input, input.services[s].ports[p]))
        => generated.kind = "Err"

(***************************************************************************)
(* Properties of parse, checked under Spec.                                *)
(***************************************************************************)
\* C8: parse_url reads documents of the schemes file, http and https only;
\* a URL of any other scheme, the root's or one reached through imports at
\* any depth, is not read and makes parse return
\* Err(UnsupportedScheme(scheme)), and parse returns that error for no other
\* reason; a URL of one of the three schemes is read unless fetching it
\* fails, which is a different error.
UnsupportedSchemeIsReturned ==
    /\ \A i \in 1..Len(opened) : opened[i].scheme \in {"file", "http", "https"}
    /\ \A i \in 1..Len(log) :
          log[i].scheme \in {"file", "http", "https"}
              => \/ \E j \in 1..Len(opened) : opened[j] = log[i]
                 \/ /\ i = Len(log)
                    /\ outcome.kind = "Err"
                    /\ outcome.error \in {"PathConversionError", "FileOpenError",
                                          "ReqwestError"}
    /\ \A i \in 1..Len(log) :
          log[i].scheme \notin {"file", "http", "https"}
              => /\ i = Len(log)
                 /\ Len(opened) = Len(log) - 1
                 /\ outcome = Err("UnsupportedScheme", log[i].scheme)
    /\ outcome.error = "UnsupportedScheme"
          => /\ outcome.kind = "Err"
             /\ log # <<>>
             /\ log[Len(log)].scheme \notin {"file", "http", "https"}

\* an ftp URL imported by a document that was itself imported
UnsupportedSchemeSeen ==
    /\ Len(log) = 3
    /\ Len(calls) = 2
    /\ log[1].scheme = "https"
    /\ outcome = Err("UnsupportedScheme", "ftp")

\* a Start or Empty of definitions, read at the root of a document, that has
\* no targetNamespace attribute, and was not pushed
RootDefinitionsLacksTarget ==
    /\ last.kind \in {"Start", "Empty"}
    /\ split_namespaced_name(last.tag.name).name = "definitions"
    /\ \A i \in 1..Len(last.tag.attrs) : last.tag.attrs[i].key # "targetNamespace"
    /\ calls # <<>>
    /\ calls[Len(calls)].stack = <<>>

\* C9: parsing a document whose root definitions element has no
\* targetNamespace attribute ends with parse returning a StructuralError.
DefinitionsWithoutTargetIsAnError ==
    RootDefinitionsLacksTarget => outcome = Err("StructuralError", "")

\* the attributes an element must carry, by the state it is met in
Mandatory(top, local_name) ==
    IF top = None
    THEN IF local_name \in {"definitions", "schema"} THEN {"targetNamespace"} ELSE {}
    ELSE CASE top[1].s = "Definitions" /\ local_name = "import" -> {"location"}
           [] top[1].s = "Definitions" /\ local_name \in {"message", "portType", "service"}
                 -> {"name"}
           [] top[1].s = "Definitions" /\ local_name = "binding" -> {"name", "type"}
           [] top[1].s = "Types" /\ local_name = "schema" -> {"targetNamespace"}
           [] top[1].s = "Types" /\ local_name = "import" -> {"schemaLocation"}
           [] top[1].s = "Schema"
              /\ local_name \in {"element", "complexType", "simpleType"} -> {"name"}
           [] top[1].s = "Schema" /\ local_name \in {"include", "import"}
                 -> {"schemaLocation"}
           [] top[1].s \in {"ComplexContent", "SimpleContent"} /\ local_name = "extension"
                 -> {"base"}
           [] top[1].s = "SimpleType" /\ local_name = "restriction" -> {"base"}
           [] top[1].s = "Sequence" /\ local_name = "element" -> {"name"}
           [] top[1].s = "Message" /\ local_name = "part" -> {"name", "element"}
           [] top[1].s = "PortType" /\ local_name = "operation" -> {"name"}
           [] top[1].s = "Operation" /\ local_name \in {"input", "output"} -> {"message"}
           [] top[1].s = "Binding" /\ local_name = "operation" -> {"name"}
           [] top[1].s = "Binding" /\ local_name = "binding" -> {"transport"}
           [] top[1].s = "BindingOperation" /\ local_name = "operation"
                 -> {"soapAction", "style"}
           [] top[1].s \in {"BindingInput", "BindingOutput"} /\ local_name = "body"
                 -> {"use"}
           [] top[1].s = "Service" /\ local_name = "port" -> {"name", "binding"}
           [] top[1].s = "Port" /\ local_name = "address" -> {"location"}
           [] OTHER -> {}

HasAttribute(tag, key) == \E i \in 1..Len(tag.attrs) : tag.attrs[i].key = key

LacksAttribute(top, tag) ==
    \E key \in Mandatory(top, split_namespaced_name(tag.name).name) :
        ~HasAttribute(tag, key)

\* a frame that closes without a value it must have collected
ClosesLacking(f) ==
    \/ f.s = "Port" /\ f.address = None
    \/ f.s = "Binding" /\ f.transport = None
    \/ f.s = "BindingOperation" /\ (f.action = None \/ f.style = None)
    \/ f.s = "Element" /\ f.kind = None
    \/ f.s = "ComplexType" /\ f.name # None /\ f.kind = None
    \/ f.s = "SequenceElement" /\ f.ty = None /\ f.inner = None

\* an empty element whose frame closes at once without such a value
EmptyLacking(top, tag) ==
    /\ top # None
    /\ \/ top[1].s = "Service" /\ split_namespaced_name(tag.name).name = "port"
       \/ top[1].s = "Definitions" /\ split_namespaced_name(tag.name).name = "binding"
       \/ top[1].s = "Binding" /\ split_namespaced_name(tag.name).name = "operation"
       \/ top[1].s = "Schema" /\ split_namespaced_name(tag.name).name = "complexType"
       \/ /\ top[1].s \in {"Schema", "Sequence"}
          /\ split_namespaced_name(tag.name).name = "element"
          /\ ~HasAttribute(tag, "type")

\* the event ev, read with `stack` as the stack, lacks mandatory data
Lacking(stack, ev) ==
    \/ ev.kind \in {"Start", "Empty"} /\ LacksAttribute(TopOf(stack), ev.tag)
    \/ ev.kind = "Empty" /\ EmptyLacking(TopOf(stack), ev.tag)
    \/ ev.kind = "End" /\ stack # <<>> /\ ClosesLacking(stack[Len(stack)])

\* C10: whenever the event just read is a start tag without an attribute
\* that is mandatory for it, or closes a frame that has not collected a value
\* it must have, parsing aborts there, by a panic or an error; and once
\* parse has ended in a panic or an error its outcome never changes, so it
\* never returns Ok.
MissingDataIsFatal ==
    [][/\ (nev' = nev + 1 /\ calls # <<>> /\ Lacking(calls[Len(calls)].stack, last'))
           => outcome'.kind \in {"panic", "Err"}
       /\ outcome.kind \in {"panic", "Err"} => outcome' = outcome]_vars

\* a port that closed without an address, and the panic that followed
MissingDataSeen ==
    /\ outcome.kind = "panic"
    /\ last.kind = "End"
    /\ calls # <<>>
    /\ calls[Len(calls)].stack # <<>>
    /\ calls[Len(calls)].stack[Len(calls[Len(calls)].stack)].s = "Port"
    /\ calls[Len(calls)].stack[Len(calls[Len(calls)].stack)].address = None

(***************************************************************************)
(* Prefixes.  A consistent renaming of prefixes swaps two prefixes in the  *)
(* xmlns declarations and in the QNames of a document; the parser that has *)
(* read the renamed document so far differs in the keys of its prefix map. *)
(***************************************************************************)
SwapPrefix(prefix, a, b) == IF prefix = a THEN b ELSE IF prefix = b THEN a ELSE prefix

SwapSegments(segs, a, b) ==
    IF Len(segs) # 2 THEN segs
    ELSE IF segs[1] = "xmlns" THEN <<"xmlns", SwapPrefix(segs[2], a, b)>>
    ELSE <<SwapPrefix(segs[1], a, b), segs[2]>>

RenamedString(s, a, b) ==
    IF \E t \in DOMAIN Colon : Colon[t] = SwapSegments(Segments(s), a, b)
    THEN CHOOSE t \in DOMAIN Colon : Colon[t] = SwapSegments(Segments(s), a, b)
    ELSE s

RenamedTag(tag, a, b) ==
    StartTag(RenamedString(tag.name, a, b),
             [i \in 1..Len(tag.attrs) |->
                 Attr(RenamedString(tag.attrs[i].key, a, b),
                      RenamedString(tag.attrs[i].value, a, b))])

SwapKey(key, a, b) == IF key = None THEN None ELSE Some(SwapPrefix(key[1], a, b))

SwapMap(map, a, b) ==
    [k \in {SwapKey(j, a, b) : j \in DOMAIN map} |-> map[SwapKey(k, a, b)]]

RenamedMachine(m, a, b) ==
    [m EXCEPT !.cur = [target |-> m.cur.target,
                       namespaces |-> SwapMap(m.cur.namespaces, a, b)]]

\* the attributes whose values are QNames
ReferenceAttributes == {"type", "base", "element", "message", "binding"}

\* every QName among the attributes of tag has a prefix that is declared
\* on tag or on an element open around it
ReferencesDeclared(nsbuf, tag) ==
    \A i \in 1..Len(tag.attrs) :
        tag.attrs[i].key \in ReferenceAttributes
            => /\ split_namespaced_name(tag.attrs[i].value).prefix # None
               /\ ResolveIn(Flatten(nsbuf) \o Declarations(tag.attrs),
                            split_namespaced_name(tag.attrs[i].value).prefix) # None

\* two handler results that differ by the renaming of the map's keys only
SameButPrefixes(m1, m2, a, b) ==
    /\ m1.out = m2.out
    /\ m1.out # "panic"
          => /\ m1.stack = m2.stack
             /\ m1.definition = m2.definition
             /\ m1.namespaces = m2.namespaces
             /\ m1.imp = m2.imp
             /\ m1.cur.target = m2.cur.target
             /\ m2.cur.namespaces = SwapMap(m1.cur.namespaces, a, b)

\* C11: parse is independent of the choice of prefixes: from parsers that
\* agree up to the renaming of prefixes (tns <-> p, every URI and target
\* namespace as declared), handling a start tag and handling the renamed
\* start tag leave the same stack, the same Definition and the same
\* Namespaces table, so whole documents that differ by the renaming parse to
\* identical results.
PrefixIndependence ==
    [][(/\ nev' = nev + 1
        /\ last'.kind \in {"Start", "Empty"}
        /\ calls # <<>>
        /\ ReferencesDeclared(calls[Len(calls)].nsbuf, last'.tag))
           => SameButPrefixes(
                  handle_start(Current, last'.tag,
                               ElementNamespace(calls[Len(calls)].nsbuf, last'.tag)),
                  handle_start(RenamedMachine(Current, "tns", "p"),
                               RenamedTag(last'.tag, "tns", "p"),
                               ElementNamespace(calls[Len(calls)].nsbuf, last'.tag)),
                  "tns", "p")]_vars

\* the reference a start tag left in the frame it pushed, and the attribute
\* it was read from
ReferenceOf(frame) ==
    CASE frame.s = "Element" -> frame.kind[1].ref
      [] frame.s = "Binding" -> frame.ty
      [] frame.s = "Part" -> frame.element
      [] frame.s = "Port" -> frame.binding

ReferenceAttribute(frame) ==
    CASE frame.s = "Element" -> "type"
      [] frame.s = "Binding" -> "type"
      [] frame.s = "Part" -> "element"
      [] frame.s = "Port" -> "binding"

\* the last event was a start tag with a QName p:local, p other than tns,
\* and the handler pushed the frame that holds the resolved reference
ResolvedPrefixed ==
    /\ outcome.kind = "running"
    /\ calls # <<>>
    /\ last.kind = "Start"
    /\ calls[Len(calls)].pending = None
    /\ calls[Len(calls)].stack # <<>>
    /\ calls[Len(calls)].stack[Len(calls[Len(calls)].stack)].s
           \in {"Element", "Binding", "Part", "Port"}
    /\ get_attribute(last.tag.attrs,
                     ReferenceAttribute(
                         calls[Len(calls)].stack[Len(calls[Len(calls)].stack)])) # None
    /\ split_namespaced_name(
           Unwrap(get_attribute(last.tag.attrs,
                                ReferenceAttribute(
                                    calls[Len(calls)].stack[Len(calls[Len(calls)].stack)])))
           ).prefix \notin {None, Some("tns")}

\* C12: a prefix bound by xmlns:p is in effect for the declaring element and
\* its descendants only: the namespace a QName p:local resolves to is the
\* URI of the innermost declaration of p among the elements open around the
\* reference in its own document, whatever elements and imported documents
\* that have been closed before declared for p.
PrefixScoping ==
    ResolvedPrefixed
        => ResolveIn(
               Flatten(calls[Len(calls)].nsbuf),
               split_namespaced_name(
                   Unwrap(get_attribute(
                       last.tag.attrs,
                       ReferenceAttribute(
                           calls[Len(calls)].stack[Len(calls[Len(calls)].stack)])))
                   ).prefix)
           = Some(namespaces[
                  ReferenceOf(calls[Len(calls)].stack[Len(calls[Len(calls)].stack)]).idx
                  + 1])

\* C13: after parse has returned Ok, no two entries of definition.types have
\* the same NamespacedName (the same namespace index and local name).
TypeNamesUnique ==
    outcome = ReturnedOk
        => \A i, j \in 1..Len(definition.types) :
               definition.types[i].name = definition.types[j].name => i = j

(***************************************************************************)
(* References.                                                             *)
(***************************************************************************)
RecognizedBuiltin(nn) == get_ty_ident(nn.name) # "None"

TypeEntries(def, nn) == {i \in 1..Len(def.types) : def.types[i].name = nn}

MessageEntries(def, nn) == {i \in 1..Len(def.messages) : def.messages[i].name = nn}

\* every reference among `fields`, the fields of inline types included,
\* names a built-in or exactly one entry of the type table
RECURSIVE FieldsClosed(_, _)
FieldsClosed(def, fields) ==
    \A i \in 1..Len(fields) :
        IF fields[i].ty.kind = "Type"
        THEN \/ RecognizedBuiltin(fields[i].ty.ref)
             \/ Cardinality(TypeEntries(def, fields[i].ty.ref)) = 1
        ELSE FieldsClosed(def, fields[i].ty.inner.fields)

OperationClosed(def, op) ==
    /\ op.input # None => MessageEntries(def, Unwrap(op.input)) # {}
    /\ op.output # None => MessageEntries(def, Unwrap(op.output)) # {}

ReferencesClosed(def) ==
    /\ \A t \in 1..Len(def.types) : FieldsClosed(def, def.types[t].kind.fields)
    /\ \A m \in 1..Len(def.messages) : FieldsClosed(def, def.messages[m].parts)
    /\ \A p \in 1..Len(def.port_types) :
          \A o \in 1..Len(def.port_types[p].operations) :
              OperationClosed(def, def.port_types[p].operations[o])

\* C14: whenever parse has returned Ok and preprocess returns on its
\* Definition, every type reference of a struct field or message part names
\* a recognized built-in or exactly one entry of definition.types, and every
\* operation input and output names an entry of definition.messages.
ReferenceClosure ==
    (outcome = ReturnedOk /\ preprocess(definition) # None) => ReferencesClosed(definition)

(***************************************************************************)
(* Properties of schema types from the document to the generated code      *)
(* (SpecSchema), and of State::rust_name (SpecNames).                      *)
(***************************************************************************)
LocalNames(fields) == [k \in 1..Len(fields) |-> fields[k].name.name]

ItemNames(items) == [k \in 1..Len(items) |-> items[k].name]

\* the children of the sequence at q that are closed once n events are read
ClosedChildren(events, q, n) ==
    SelectSeq(Children(events, q), LAMBDA c : Close(events, c) <= n)

\* every open Sequence frame holds one Field per closed child, in order
SequenceFramesFollow ==
    calls # <<>> =>
        \A s \in 1..Len(calls[1].stack) :
            calls[1].stack[s].s = "Sequence" =>
                LocalNames(calls[1].stack[s].fields)
                    = NamesAt(document,
                              ClosedChildren(document, OpenAt(document, nev, s), nev))

\* `fields` are the children of the sequence at q, one each and in order,
\* named in the target namespace, an inline complexType giving an Inner
\* Struct of the children of its own sequence
RECURSIVE FieldsFollow(_, _, _)
FieldsFollow(fields, events, q) ==
    /\ LocalNames(fields) = NamesAt(events, Children(events, q))
    /\ \A k \in 1..Len(fields) :
          /\ namespaces[fields[k].name.idx + 1] = TargetUri
          /\ IF events[Children(events, q)[k]].kind = "Empty"
             THEN fields[k].ty.kind = "Type"
             ELSE /\ fields[k].ty.kind = "Inner"
                  /\ fields[k].ty.inner.kind = "Struct"
                  /\ FieldsFollow(fields[k].ty.inner.fields, events,
                                  FirstSequenceAfter(events, Children(events, q)[k]))

IsExtension(events) == \E i \in 1..Len(events) : IsTag(events, i, "extension")

\* the fields a Struct got from its own sequence
OwnFields(events, fields) == IF IsExtension(events) THEN Tail(fields) ELSE fields

\* the Struct of a document that was read to its end
StructsFollow ==
    (outcome = ReturnedOk /\ FirstSequenceAfter(document, 0) # 0)
        => /\ Len(definition.types) = 1
           /\ definition.types[1].kind.kind = "Struct"
           /\ FieldsFollow(OwnFields(document, definition.types[1].kind.fields),
                           document, FirstSequenceAfter(document, 0))

\* the generated record, its to_xml and its from_xml
ItemsFollow ==
    generated.kind = "Ok" =>
        \A t \in 1..Len(generated.types) :
            generated.types[t].decl = "struct" =>
                /\ ItemNames(generated.types[t].members)
                       = LocalNames(input.types[t].kind.fields)
                /\ ItemNames(generated.types[t].to_xml)
                       = ItemNames(generated.types[t].members)
                /\ ItemNames(generated.types[t].from_xml)
                       = ItemNames(generated.types[t].members)
                /\ \A k \in 1..Len(generated.types[t].to_xml) :
                      /\ generated.types[t].to_xml[k].xml_name
                             = input.types[t].kind.fields[k].name
                      /\ generated.types[t].from_xml[k].xml_name
                             = input.types[t].kind.fields[k].name.name

\* C15: field order is document order end to end: every Sequence frame
\* holds one Field per closed element child, in document order; the Struct
\* of the finished type has the children of its sequence as its fields, in
\* that order; the members of the generated record, the fields its to_xml
\* writes and the fields its from_xml reads are those fields in that order
FieldOrder == SequenceFramesFollow /\ StructsFollow /\ ItemsFollow

\* a record of two fields of different names was generated
FieldOrderSeen ==
    /\ generated.kind = "Ok"
    /\ Len(generated.types) = 1
    /\ generated.types[1].decl = "struct"
    /\ Len(generated.types[1].members) >= 2
    /\ generated.types[1].members[1].name # generated.types[1].members[2].name
    /\ Len(Children(document, FirstSequenceAfter(document, 0))) >= 2

\* the position of the first tag `name` of the document, 0 when it has none
FirstTag(events, name) ==
    IF \E i \in 1..Len(events) : IsTag(events, i, name)
    THEN CHOOSE i \in 1..Len(events) :
             IsTag(events, i, name) /\ \A j \in 1..(i - 1) : ~IsTag(events, j, name)
    ELSE 0

\* `nn` is the name the attribute `key` of the first tag `name` refers to, by
\* the declarations of the root element
RefersTo(nn, events, name, key) ==
    /\ nn.idx + 1 \in 1..Len(namespaces)
    /\ nn.name = split_namespaced_name(
                     get_attribute(events[FirstTag(events, name)].tag.attrs, key)[1]).name
    /\ Some(namespaces[nn.idx + 1])
           = ResolveIn(Declarations(events[1].tag.attrs),
                       split_namespaced_name(
                           get_attribute(events[FirstTag(events, name)].tag.attrs,
                                         key)[1]).prefix)

\* the synthetic field of an extension of base X
IsBaseField(field, events) ==
    /\ field.name.name = "base"
    /\ namespaces[field.name.idx + 1] = TargetUri
    /\ field.ty.kind = "Type"
    /\ RefersTo(field.ty.ref, events, "extension", "base")

\* C16: a complexType with complexContent/extension base="X" yields
\* Struct(fields) where fields[1] is the synthetic field of kind Type(X) and
\* the rest are exactly the fields of the extension's own sequence in
\* document order; while the extension and its complexContent are open the
\* base field is the first of the fields they hold
ExtensionBaseFirst ==
    /\ calls # <<>> =>
          \A s \in 1..Len(calls[1].stack) :
              (/\ calls[1].stack[s].s \in {"ComplexExtension", "ComplexContent"}
               /\ calls[1].stack[s].fields # <<>>)
                  => IsBaseField(calls[1].stack[s].fields[1], document)
    /\ (outcome = ReturnedOk /\ IsExtension(document))
          => /\ Len(definition.types) = 1
             /\ definition.types[1].kind.kind = "Struct"
             /\ Len(definition.types[1].kind.fields)
                    = 1 + Len(Children(document, FirstSequenceAfter(document, 0)))
             /\ IsBaseField(definition.types[1].kind.fields[1], document)
             /\ FieldsFollow(Tail(definition.types[1].kind.fields), document,
                             FirstSequenceAfter(document, 0))

\* an extension with fields of its own was read to its end
ExtensionSeen ==
    /\ outcome = ReturnedOk
    /\ IsExtension(document)
    /\ Len(definition.types) = 1
    /\ Len(definition.types[1].kind.fields) >= 2

\* the running parse_xml closes, with this event, a frame `s` below a frame
\* `parent`
Closes(s, parent) ==
    /\ calls # <<>>
    /\ calls' # <<>>
    /\ nev' = nev + 1
    /\ last'.kind = "End"
    /\ Len(calls[1].stack) >= 2
    /\ calls[1].stack[Len(calls[1].stack)].s = s
    /\ calls[1].stack[Len(calls[1].stack) - 1].s = parent

Top(stack) == stack[Len(stack)]
Below(stack) == stack[Len(stack) - 1]

\* C17: closing an anonymous inline complexType whose parent frame is a
\* SequenceElement or a top-level Element appends no entry to
\* definition.types: its kind becomes the inner kind of the SequenceElement
\* or the kind of the Element, nothing else on the stack changes, and closing
\* that SequenceElement appends one Field of kind Inner to its Sequence
InlineComplexTypeFolds ==
    [][/\ (Closes("ComplexType", "SequenceElement")
             /\ Top(calls[1].stack).name = None)
           => /\ definition' = definition
              /\ calls'[1].stack
                     = Append(SubSeq(calls[1].stack, 1, Len(calls[1].stack) - 2),
                              [Below(calls[1].stack) EXCEPT
                                   !.ty = None, !.inner = Top(calls[1].stack).kind])
       /\ (Closes("ComplexType", "Element") /\ Top(calls[1].stack).name = None)
           => /\ definition' = definition
              /\ calls'[1].stack
                     = Append(SubSeq(calls[1].stack, 1, Len(calls[1].stack) - 2),
                              [Below(calls[1].stack) EXCEPT
                                   !.kind = Top(calls[1].stack).kind])
       /\ (Closes("SequenceElement", "Sequence")
             /\ Top(calls[1].stack).inner # None)
           => /\ definition' = definition
              /\ Len(Top(calls'[1].stack).fields)
                     = Len(Below(calls[1].stack).fields) + 1
              /\ SubSeq(Top(calls'[1].stack).fields, 1,
                        Len(Below(calls[1].stack).fields))
                     = Below(calls[1].stack).fields
              /\ Top(Top(calls'[1].stack).fields).ty
                     = FieldInner(Top(calls[1].stack).inner[1])
              /\ Top(Top(calls'[1].stack).fields).name.name
                     = Top(calls[1].stack).name]_vars

\* inline complexTypes of a sequence element and of a top-level element were
\* closed, and the document gave one type
InlineComplexTypeSeen ==
    /\ outcome = ReturnedOk
    /\ Len(definition.types) = 1
    /\ definition.types[1].kind.kind = "Struct"
    /\ IsTag(document, 2, "element")
    /\ \E k \in 1..Len(definition.types[1].kind.fields) :
          definition.types[1].kind.fields[k].ty.kind = "Inner"

\* C18: a top-level simpleType name=N with restriction base=B appends, at
\* the simpleType's close and not before, exactly one Type named N in the
\* target namespace of kind Simple(B); code generation turns it into one
\* newtype named N over the primitive B maps to when B is a built-in
SimpleTypeIsNewtype ==
    IsTag(document, 2, "simpleType") =>
        /\ (calls # <<>> /\ calls[1].stack # <<>> /\ nev < Close(document, 2))
              => definition.types = <<>>
        /\ (nev >= Close(document, 2))
              => /\ Len(definition.types) = 1
                 /\ definition.types[1].name.name
                        = get_attribute(document[2].tag.attrs, "name")[1]
                 /\ namespaces[definition.types[1].name.idx + 1] = TargetUri
                 /\ definition.types[1].kind.kind = "Simple"
                 /\ RefersTo(definition.types[1].kind.ref, document, "restriction", "base")
        /\ (generated.kind # "none" /\ outcome = ReturnedOk
              /\ get_ty_ident(input.types[1].kind.ref.name) # "None")
              => /\ generated.kind = "Ok"
                 /\ generated.types
                        = <<Newtype(Spell(input.types[1].name.name), input.types[1].name,
                                    get_ty_ident(input.types[1].kind.ref.name))>>

\* a newtype was generated from a simpleType
SimpleTypeSeen ==
    /\ IsTag(document, 2, "simpleType")
    /\ generated.kind = "Ok"
    /\ Len(generated.types) = 1
    /\ generated.types[1].decl = "newtype"
    /\ generated.types[1].inner = "String"

\* C19: the identifier disambiguator is injective: after any sequence of
\* rust_name calls on one State, two distinct NamespacedNames never have the
\* same identifier
RustNameInjective ==
    \A i, j \in 1..Len(returned) :
        returned[i].name # returned[j].name => returned[i].ident # returned[j].ident

\* the last call was for a name that had been requested before
Repeated ==
    /\ Len(returned') = Len(returned) + 1
    /\ \E i \in 1..Len(returned) : returned[i].name = returned'[Len(returned')].name

\* C20: the identifier disambiguator is stable: every call of rust_name(n)
\* returns the identifier the first call for n returned, whatever names were
\* requested in between, and a repeated request leaves every occurrence
\* counter and every assigned identifier as it was
RustNameStable ==
    [][/\ \A i, j \in 1..Len(returned') :
              returned'[i].name = returned'[j].name
                  => returned'[i].ident = returned'[j].ident
       /\ Repeated => /\ codegen_state'.name_counts = codegen_state.name_counts
                      /\ codegen_state'.rust_names = codegen_state.rust_names]_vars

\* a name was requested again after another name of the same local name got
\* its identifier
RustNameRepeatedSeen ==
    \E i, j, k \in 1..Len(returned) :
        /\ i < j /\ j < k
        /\ returned[i].name = returned[k].name
        /\ returned[j].name # returned[i].name
        /\ returned[j].name.name = returned[i].name.name

(***************************************************************************)
(* Properties of the identifiers and declarations of the code generator.   *)
(***************************************************************************)
\* call i is the first request for its name
IsFirst(i) == \A j \in 1..(i - 1) : returned[j].name # returned[i].name

\* the first request for the name of call i
First(i) == CHOOSE j \in 1..i : returned[j].name = returned[i].name /\ IsFirst(j)

\* how many distinct names of the local name of call i were requested, up to
\* and with the first request for the name of call i
Rank(i) ==
    Cardinality({returned[j].name : j \in {k \in 1..First(i) :
                     returned[k].name.name = returned[i].name.name}})

\* C21: suffix numbering: of the distinct names sharing a local name L, the
\* one requested first has the identifier L and the j-th has L followed by
\* the decimal j-1; every declared type carries the identifier of its own
\* NamespacedName and keeps that name, with its namespace index, as the name
\* its ns{i}: prefix is made of
SuffixNumbering ==
    /\ \A i \in 1..Len(returned) :
          returned[i].ident
              = IF Rank(i) = 1 THEN Spell(returned[i].name.name)
                ELSE Spell(returned[i].name.name) \o FormatNat(Rank(i) - 1)
    /\ \A t \in 1..Len(generated.types) :
          /\ generated.types[t].xml_name \in codegen_state.added_types
          /\ \E i \in 1..Len(returned) :
                /\ returned[i].name = generated.types[t].xml_name
                /\ returned[i].ident = generated.types[t].name
    /\ \A n \in codegen_state.added_types :
          \E t \in 1..Len(generated.types) : generated.types[t].xml_name = n

\* three names of one local name were requested and the third one, of
\* namespace 2, was declared under its numbered identifier
SuffixNumberingSeen ==
    /\ \E i \in 1..Len(returned) : Rank(i) = 3 /\ IsFirst(i)
    /\ \E t \in 1..Len(generated.types) :
          /\ generated.types[t].xml_name = NN(2, "A")
          /\ generated.types[t].name = <<"A", "2">>

(***************************************************************************)
(* Properties of the Namespaces table (SpecInterning).                     *)
(***************************************************************************)
IsPrefix(s, t) == Len(s) <= Len(t) /\ SubSeq(t, 1, Len(s)) = s

NoRepeat(s) == \A i, j \in 1..Len(s) : s[i] = s[j] => i = j

\* the index the first call for the URI of call i returned
FirstIndex(calls_, i) ==
    calls_[CHOOSE j \in 1..i : /\ calls_[j].uri = calls_[i].uri
                               /\ \A k \in 1..(j - 1) : calls_[k].uri # calls_[i].uri].idx

\* C22: the Namespaces table is append-only with stable indices: a call of
\* add_or_get or NamespacedName::new leaves every entry where it was, the
\* table never holds one URI twice, every call for a URI returns the index
\* of that URI's first insertion, which is where the URI is, and a call for
\* a URI that is present leaves the table unchanged
NamespacesAppendOnly ==
    [][/\ IsPrefix(namespaces, namespaces')
       /\ NoRepeat(namespaces')
       /\ \A i \in 1..Len(built') :
             /\ built'[i].idx = FirstIndex(built', i)
             /\ built'[i].idx + 1 \in 1..Len(namespaces')
             /\ namespaces'[built'[i].idx + 1] = built'[i].uri
       /\ (Len(built') = Len(built) + 1
             /\ \E k \in 1..Len(namespaces) : namespaces[k] = built'[Len(built')].uri)
            => namespaces' = namespaces]_vars

\* a URI was asked for again after another URI was inserted behind it
NamespacesReusedSeen ==
    /\ Len(namespaces) = 2
    /\ \E i, j, k \in 1..Len(built) :
          /\ i < j /\ j < k
          /\ built[i].uri = built[k].uri
          /\ built[j].uri # built[i].uri

\* the names NamespacedName::new returned
Names == {i \in 1..Len(built) : built[i].name # NoNN}

\* C23: interning round-trip: for every name n built by
\* NamespacedName::new(table, uri, local), at every later state
\* table[n.index()] is uri and index_of(uri) is n.index(); two names built
\* against the table are equal iff their URIs and their local names are
InterningRoundTrip ==
    /\ \A i \in Names :
          /\ built[i].name.idx + 1 \in 1..Len(namespaces)
          /\ namespaces[built[i].name.idx + 1] = built[i].uri
          /\ index_of(namespaces, built[i].uri) = Some(built[i].name.idx)
    /\ \A i, j \in Names :
          (built[i].name = built[j].name)
              <=> (built[i].uri = built[j].uri
                     /\ built[i].name.name = built[j].name.name)

\* names of one URI and of different URIs were built, one of them twice
InterningSeen ==
    \E i, j, k \in Names :
        /\ i < j /\ j < k
        /\ built[i].uri # built[j].uri
        /\ built[i].name.name = built[j].name.name
        /\ built[k].name = built[i].name

(***************************************************************************)
(* Properties of Type::codegen over a list of types (SpecTypes).           *)
(***************************************************************************)
\* the declarations emitted so far for a name
DeclarationsOf(name) == {i \in 1..Len(generated.types) : generated.types[i].xml_name = name}

IsSelfAlias(ty) == ty.kind.kind = "Alias" /\ ty.kind.ref = ty.name

\* the names with a Struct, a Simple or a non-self Alias entry
DeclarableNames == {input.types[i].name : i \in {j \in 1..Len(input.types) :
                                                    ~IsSelfAlias(input.types[j])}}

\* C24: when from_definition returns, the types namespace holds exactly one
\* declaration for every name that has a Struct, a Simple or a non-self
\* Alias entry in definition.types, whatever the order of the entries, and
\* no declaration for any other name
OneDeclarationPerName ==
    generated.kind = "Ok" =>
        /\ \A name \in DeclarableNames : Cardinality(DeclarationsOf(name)) = 1
        /\ \A i \in 1..Len(generated.types) : generated.types[i].xml_name \in DeclarableNames

\* C25: de-duplication by NamespacedName: at every point of code generation
\* at most one declaration per name has been emitted; each Type::codegen call
\* only adds to the set of emitted names; and a call for an entry whose name
\* is in the set emits nothing and leaves name_counts and rust_names alone
Deduplication ==
    [][/\ \A i, j \in 1..Len(generated'.types) :
             generated'.types[i].xml_name = generated'.types[j].xml_name => i = j
       /\ visited' = visited + 1 =>
             /\ codegen_state.added_types \subseteq codegen_state'.added_types
             /\ input.types[visited'].name \in codegen_state.added_types =>
                   /\ generated' = generated
                   /\ codegen_state' = codegen_state
       /\ visited' = visited /\ generated'.kind = "Ok" =>
             /\ generated'.types = generated.types
             /\ codegen_state' = codegen_state]_vars

\* an entry was skipped because its name had been emitted, after another
\* name was declared
DeduplicationSeen ==
    /\ generated.kind = "Ok"
    /\ Len(input.types) = 3
    /\ input.types[1].name = input.types[3].name
    /\ input.types[1] # input.types[3]
    /\ Len(generated.types) = 2

(***************************************************************************)
(* Properties of expect_start and expect_end, on the events of every       *)
(* response Client::send has parsed (SpecSoap).                            *)
(***************************************************************************)
\* the first event at or after p that next_event does not pass over
FirstSignificant(evs, p) ==
    CHOOSE q \in p..(Len(evs) + 1) :
        /\ ~Skipped(EventAt(evs, q))
        /\ \A k \in p..(q - 1) : Skipped(EventAt(evs, k))

ExpectedNames(evs) ==
    {"Envelope", "Body"} \cup {evs[i].name.local : i \in {j \in 1..Len(evs) : evs[j].k = "Start"}}

\* C26: expect_start(name) passes over declarations, comments and processing
\* instructions (white space is no event of the trimming reader), consumes
\* the next Start, End or Text, and succeeds exactly when that is a Start
\* whose local name is name, whatever its prefix; on an End, a Text, a Start
\* of another local name and at the end of the input it fails
ExpectStartLocalName ==
    parses > 0 =>
        \A evs \in {ReadEvents(response, <<>>)} :
            \A p \in 1..(Len(evs) + 1), name \in ExpectedNames(evs) :
                \A q \in {FirstSignificant(evs, p)} :
                    IF EventAt(evs, q).k = "Start" /\ EventAt(evs, q).name.local = name
                    THEN expect_start(evs, Begin(p), name) = Begin(q + 1)
                    ELSE ~expect_start(evs, Begin(p), name).ok

\* a response whose Envelope and Body carry another prefix, with white space
\* between its tags, was read to its end
ExpectStartSeen ==
    /\ result.ok
    /\ \E evs \in {ReadEvents(response, <<>>)} :
          /\ \E i \in 1..Len(evs) :
                /\ evs[i].k = "Start"
                /\ evs[i].name.local = "Envelope"
                /\ evs[i].name.prefix.p # "soapenv"
          /\ Len(evs) < Len(response)

\* C27: expect_end succeeds exactly when the very next event the reader
\* returns is an End, whatever name the End carries, and consumes that one
\* event; on every other event, a comment included, it fails
ExpectEndAnyName ==
    parses > 0 =>
        \A evs \in {ReadEvents(response, <<>>)} :
            \A p \in 1..(Len(evs) + 1) :
                IF EventAt(evs, p).k = "End"
                THEN expect_end(evs, Begin(p)) = Begin(p + 1)
                ELSE ~expect_end(evs, Begin(p)).ok

\* a response was read to its end by expect_end calls that met Ends of more
\* than two names
ExpectEndSeen ==
    /\ result.ok
    /\ \E evs \in {ReadEvents(response, <<>>)} :
          Cardinality({evs[i].name : i \in {j \in 1..Len(evs) : evs[j].k = "End"}}) > 2

(***************************************************************************)
(* Properties of the parser's stacks over documents that import one        *)
(* another (Spec).                                                         *)
(***************************************************************************)
\* the states of a parse_xml activation, the one its suspended handle_start
\* popped included
FullStack(frame) ==
    IF frame.pending = None THEN frame.stack ELSE frame.stack \o frame.pending[1].state

\* the targetNamespace of the tags the documents have: TargetUri on a root
\* definitions or schema, OtherUri on a schema inside types
RECURSIVE StackTargets(_, _)
StackTargets(stack, k) ==
    IF k > Len(stack) THEN <<>>
    ELSE (IF stack[k].s = "Definitions" \/ (stack[k].s = "Schema" /\ k = 1)
          THEN <<TargetUri>>
          ELSE IF stack[k].s = "Schema" THEN <<OtherUri>> ELSE <<>>)
             \o StackTargets(stack, k + 1)

\* the targetNamespaces of the open definitions and schema elements of all
\* documents being read, outermost first
RECURSIVE OpenTargets(_)
OpenTargets(cs) ==
    IF cs = <<>> THEN <<>>
    ELSE StackTargets(FullStack(Head(cs)), 1) \o OpenTargets(Tail(cs))

Balanced == current_namespaces.target = OpenTargets(calls)

\* parse_xml returns at an Eof that leaves elements open
Truncating == Len(calls') < Len(calls) /\ calls[Len(calls)].stack # <<>>

Scoping(top) == top # None /\ top[1].s \in {"Definitions", "Schema"}

EntityTables == {"types", "messages", "port_types", "bindings", "services"}

\* the URI of a NamespacedName in the table after the step
UriOf(nn) == namespaces'[nn.idx + 1]

\* C28: target-namespace stack discipline: the stack grows exactly when a
\* Start opens a definitions or a schema frame and shrinks exactly when an End
\* closes one, always at its top; so as long as every document that returned
\* had closed its elements, the stack holds the targetNamespaces of the open
\* definitions and schema elements, outermost first, and is after a close or
\* the return of an import what it was before; every entity added to a table
\* of the Definition is named in the namespace on top of the stack, and so is
\* the type a tns:-prefixed type attribute refers to
TargetStackDiscipline ==
    [][/\ (Balanced /\ ~Truncating) => Balanced'
       /\ Len(current_namespaces'.target) > Len(current_namespaces.target)
             <=> /\ last'.kind = "Start"
                 /\ outcome'.kind = "running"
                 /\ Len(calls') = Len(calls)
                 /\ Scoping(TopOf(calls'[Len(calls')].stack))
       /\ Len(current_namespaces'.target) < Len(current_namespaces.target)
             <=> /\ last'.kind = "End"
                 /\ outcome'.kind = "running"
                 /\ Scoping(TopOf(calls[Len(calls)].stack))
       /\ \/ current_namespaces'.target = current_namespaces.target
          \/ Popped(current_namespaces'.target) = current_namespaces.target
          \/ current_namespaces'.target = Popped(current_namespaces.target)
       /\ \A table \in EntityTables :
             definition'[table] # definition[table] =>
                 /\ Len(definition'[table]) = Len(definition[table]) + 1
                 /\ current_namespaces.target # <<>>
                 /\ current_namespaces'.target = current_namespaces.target
                 /\ UriOf(definition'[table][Len(definition'[table])].name)
                        = current_namespaces.target[Len(current_namespaces.target)]
       /\ (/\ last'.kind = "Start"
           /\ outcome'.kind = "running"
           /\ Len(calls') = Len(calls)
           /\ get_attribute(last'.tag.attrs, "type") = Some("tns:A")
           /\ TopOf(calls'[Len(calls')].stack)[1].s = "Element")
            => /\ TopOf(calls'[Len(calls')].stack)[1].kind # None
               /\ UriOf(TopOf(calls'[Len(calls')].stack)[1].kind[1].ref)
                      = current_namespaces'.target[Len(current_namespaces'.target)]]_vars

\* inside definitions, types and a schema of another targetNamespace, an
\* include of a document whose root schema opened and closed has returned
TargetRestoredSeen ==
    /\ last.kind = "Eof"
    /\ Len(opened) = 2
    /\ Len(calls) = 1
    /\ Some("p") \in DOMAIN current_namespaces.namespaces
    /\ current_namespaces.namespaces[Some("p")] = TargetUri
    /\ current_namespaces.target = <<TargetUri, OtherUri>>
    /\ Len(calls[1].stack) >= 3

\* C29: unknown elements are tolerated in every state: a Start of an element
\* the state on top of the stack has no arm for does not end the parse, pushes
\* Other(name) on the unchanged stack and leaves the Definition as it was
UnknownTolerated ==
    [][(/\ outcome.kind = "running"
        /\ nev' = nev + 1
        /\ last' = Event("Start", StartTag("annotation", <<>>), ""))
         => /\ outcome'.kind = "running"
            /\ calls' = [calls EXCEPT ![Len(calls)].stack = Append(@, Other("annotation")),
                                      ![Len(calls)].nsbuf = Append(@, <<>>)]
            /\ definition' = definition]_vars

\* the start tag meets an import arm of handle_start
ImportArm(top, tag) ==
    \/ IsState(top, "Definitions") /\ tag.name = "import"
    \/ IsState(top, "Types") /\ tag.name = "import"
    \/ IsState(top, "Schema") /\ tag.name \in {"import", "include"}

\* C30: imports are evaluated depth-first in document order: the step that
\* handles the Start of an import or include either ends the parse or logs
\* the location and puts the parse_xml of the referenced document on top of
\* the calls, the importing handle_start suspended below it; only the call on
\* top reads events, the calls below it stay as they are until it returns at
\* its Eof to the handler that called it; locations are logged in the order
\* their elements are handled; and every table of the Definition only grows
\* at its end, so what the imported document adds stands after what was
\* there at the import and before what is added after it
DepthFirstImports ==
    [][/\ (/\ outcome.kind = "running"
           /\ nev' = nev + 1
           /\ last'.kind \in {"Start", "Empty"}
           /\ ImportArm(TopState, last'.tag))
            => \/ outcome'.kind # "running"
               \/ /\ Len(log') = Len(log) + 1
                  /\ Len(calls') = Len(calls) + 1
       /\ log' # log =>
             /\ SubSeq(log', 1, Len(log)) = log
             /\ Len(log') = Len(log) + 1
             /\ \/ outcome'.kind # "running"
                \/ /\ calls' # <<>>
                   /\ calls'[Len(calls')] = Frame(log'[Len(log')])
                   /\ opened' = Append(opened, log'[Len(log')])
                   /\ SubSeq(calls', 1, Len(calls) - 1) = SubSeq(calls, 1, Len(calls) - 1)
                   /\ calls # <<>> =>
                         /\ Len(calls') = Len(calls) + 1
                         /\ calls'[Len(calls)].pending # None
       /\ \A k \in 1..Len(calls') :
             (calls'[k].pending # None) <=> k < Len(calls')
       /\ \A k \in 1..(Len(calls) - 1) :
             \/ k < Len(calls') /\ calls'[k] = calls[k]
             \/ /\ k = Len(calls')
                /\ k = Len(calls) - 1
                /\ last'.kind = "Eof"
                /\ definition' = definition
                /\ calls'[k].stack
                      \in {FullStack(calls[k]),
                           FullStack(calls[k]) \o <<Import(calls[k].pending[1].namespace)>>}
       /\ \A table \in EntityTables :
             /\ Len(definition[table]) <= Len(definition'[table])
             /\ SubSeq(definition'[table], 1, Len(definition[table])) = definition[table]]_vars

\* the imported document has added a message behind the one the importing
\* document closed before its import element
ImportedAfterSeen ==
    /\ Len(calls) = 2
    /\ Len(log) = 2
    /\ last.kind = "Empty"
    /\ last.tag.name = "message"
    /\ Len(definition.messages) = 2

(***************************************************************************)
(* Properties of parse_xml's event loop (Spec).                            *)
(***************************************************************************)
\* the location attribute the import arm of the state `top` reads
LocationOf(top, tag) ==
    IF IsState(top, "Definitions") THEN get_attribute(tag.attrs, "location")
    ELSE get_attribute(tag.attrs, "schemaLocation")

\* C31: the location of every import and include, at any nesting depth, is
\* joined to the root URL given to parse and not to the URL of the document
\* that holds the element: the URL opened has the root's scheme and the
\* root's directory followed by the location (an absolute location standing
\* for itself); and the root URL never changes
ImportsJoinRoot ==
    [][/\ root' = root
       /\ (log' # log /\ log # <<>>) =>
             /\ LocationOf(TopState, last'.tag) # None
             /\ log'[Len(log')] = Join(log[1], LocationOf(TopState, last'.tag)[1])
             /\ log[1] = root
             /\ LocationOf(TopState, last'.tag)[1] \in DOMAIN RelativePaths =>
                   /\ log'[Len(log')].scheme = root.scheme
                   /\ log'[Len(log')].path
                         = <<"dir">> \o RelativePaths[LocationOf(TopState, last'.tag)[1]]]_vars

\* a document of another directory than the root's included b.xsd, which was
\* looked for in the root's directory
NestedImportSeen ==
    /\ Len(log) = 3
    /\ log[2].path = <<"dir", "sub", "b.wsdl">>
    /\ log[3].path = <<"dir", "b.xsd">>
    /\ Len(calls) = 3
    /\ calls[2].url = log[2]

\* the position of the documentation element of the document
DocumentationAt == CHOOSE d \in 1..Len(document) : IsTag(document, d, "documentation")

\* the character data directly inside the documentation element, by position
DirectTexts ==
    {i \in (DocumentationAt + 1)..(Close(document, DocumentationAt) - 1) :
        /\ document[i].kind = "Text"
        /\ DepthAt(document, i) = DepthAt(document, DocumentationAt) + 1}

\* the last of them, None when there is none
LastDirectText ==
    IF DirectTexts = {} THEN None
    ELSE Some(document[CHOOSE i \in DirectTexts : \A j \in DirectTexts : j <= i].text)

OpenElements(frame) == Len(frame.nsbuf)

\* the frames s and t agree below their top n frames
SameBelow(s, t, n) ==
    \A i \in 1..(Len(s) - n) : i <= Len(t) /\ t[i] = s[i]

\* C33: stack depth tracks nesting: in one parse_xml run every Start makes
\* the stack one frame deeper and every End one frame shallower, so the depth
\* is the number of open elements of that document (a suspended import
\* element has its state popped and its Import frame not yet pushed); an
\* event leaves all frames below the top two as they were; and every imported
\* document starts on an empty stack of its own
DepthTracksNesting ==
    [][/\ \A k \in 1..Len(calls') :
             Len(calls'[k].stack) =
                 IF calls'[k].pending = None THEN OpenElements(calls'[k])
                 ELSE OpenElements(calls'[k]) - Len(calls'[k].pending[1].state)
                          - (IF calls'[k].pending[1].empty THEN 0 ELSE 1)
       /\ (nev' = nev + 1 /\ Len(calls') = Len(calls) /\ outcome'.kind = "running") =>
             /\ Len(calls'[Len(calls)].stack) - Len(calls[Len(calls)].stack)
                    = (CASE last'.kind = "Start" -> 1
                         [] last'.kind = "End" -> 0 - 1
                         [] OTHER -> 0)
             /\ SameBelow(calls[Len(calls)].stack, calls'[Len(calls)].stack,
                          IF last'.kind = "End" THEN 2 ELSE 1)
             /\ SubSeq(calls', 1, Len(calls) - 1) = SubSeq(calls, 1, Len(calls) - 1)
       /\ Len(calls') = Len(calls) + 1 =>
             /\ calls'[Len(calls')].stack = <<>>
             /\ OpenElements(calls'[Len(calls')]) = 0
             /\ \A k \in 1..Len(calls) :
                   SameBelow(calls[k].stack, calls'[k].stack, IF k = Len(calls) THEN 1 ELSE 0)]_vars

\* an imported document is two elements deep while the stack of the document
\* that imports it waits with its own depth
NestedDepthSeen ==
    /\ Len(calls) = 2
    /\ Len(calls[2].stack) = 2
    /\ OpenElements(calls[2]) = 2
    /\ calls[1].pending # None
    /\ Len(calls[1].stack) + 2 = OpenElements(calls[1])

\* the Parser after the Start step that handle_start ended with m
AfterStart(m) == Machine(m.stack, m.definition, m.namespaces, m.cur)

\* the Parser the running call resumes with after an import written as a
\* start tag has returned
AfterImport(frame) ==
    Machine(FullStack(frame) \o <<Import(frame.pending[1].namespace)>>,
            definition, namespaces, current_namespaces)

\* C34: an Empty element is handled like a Start followed at once by an End
\* of the same element: from every state, the Empty step ends the parse
\* exactly when the Start step or the End step after it would, and else
\* leaves the stack, the Definition, the namespace table and the namespace
\* context the End step would leave; an import written as an Empty element
\* starts the same nested parse and resumes with the stack the End of an
\* import written with a start tag leaves
EmptyIsStartThenEnd ==
    [][/\ (/\ outcome.kind = "running"
           /\ nev' = nev + 1
           /\ last'.kind = "Empty") =>
             \A s \in {handle_start(Current, last'.tag,
                                      ElementNamespace(calls[Len(calls)].nsbuf, last'.tag))} :
                 CASE s.out = "panic" -> outcome'.kind = "panic" /\ calls' = calls
                   [] s.out = "import" ->
                        \/ outcome'.kind = "Err" /\ calls' = calls
                        \/ /\ outcome'.kind = "running"
                           /\ Len(calls') = Len(calls) + 1
                           /\ FullStack(calls'[Len(calls)]) = s.stack \o s.imp.state
                           /\ definition' = s.definition
                           /\ namespaces' = s.namespaces
                           /\ current_namespaces' = s.cur
                   [] OTHER ->
                        \A e \in {handle_end(AfterStart(s))} :
                            IF e.out = "panic"
                            THEN outcome'.kind = "panic" /\ calls' = calls
                            ELSE /\ outcome'.kind = "running"
                                 /\ calls' = [calls EXCEPT ![Len(calls)].stack = e.stack]
                                 /\ definition' = e.definition
                                 /\ namespaces' = e.namespaces
                                 /\ current_namespaces' = e.cur
       /\ (Len(calls') < Len(calls) /\ calls' # <<>>) =>
             \A e \in {handle_end(AfterImport(calls[Len(calls')]))} :
                 /\ e.out # "panic"
                 /\ e.definition = definition'
                 /\ e.namespaces = namespaces'
                 /\ e.cur = current_namespaces'
                 /\ calls[Len(calls')].pending[1].empty =>
                       calls'[Len(calls')].stack = e.stack]_vars

\* an Empty element has defined a type, and an import written as an Empty
\* element has returned
EmptyHandledSeen ==
    /\ last.kind = "Eof"
    /\ Len(calls) = 1
    /\ Len(log) = 2
    /\ TopOf(calls[1].stack)[1].s = "Schema"
    /\ Len(definition.types) = 1

FoldedOnce ==
    [s \in {"Input", "Output", "Transport", "Sequence", "ComplexContent", "SimpleContent"} |->
        CASE s = "Input" -> <<"Operation", "input">>
          [] s = "Output" -> <<"Operation", "output">>
          [] s = "Transport" -> <<"Binding", "transport">>
          [] OTHER -> <<"ComplexType", "kind">>]

\* the Parsers handle_end runs on in this step: the running one at an End,
\* the one handle_start leaves at an Empty
Closing ==
    IF outcome.kind # "running" \/ calls = <<>> \/ nev' # nev + 1 THEN {}
    ELSE IF last'.kind = "End" THEN {Current}
    ELSE IF last'.kind = "Empty"
    THEN {AfterStart(s) : s \in {r \in {handle_start(Current, last'.tag,
                                        ElementNamespace(calls[Len(calls)].nsbuf, last'.tag))} :
                                    r.out \notin {"panic", "import"}}}
    ELSE {}

\* m closes a state of FoldedOnce whose target below it is already assigned
SecondChild(m) ==
    /\ Len(m.stack) >= 2
    /\ m.stack[Len(m.stack)].s \in DOMAIN FoldedOnce
    /\ m.stack[Len(m.stack) - 1].s = FoldedOnce[m.stack[Len(m.stack)].s][1]
    /\ m.stack[Len(m.stack) - 1][FoldedOnce[m.stack[Len(m.stack)].s][2]] # None

\* m closes a state of FoldedOnce whose target below it is still None
FirstChild(m) ==
    /\ Len(m.stack) >= 2
    /\ m.stack[Len(m.stack)].s \in DOMAIN FoldedOnce
    /\ m.stack[Len(m.stack) - 1].s = FoldedOnce[m.stack[Len(m.stack)].s][1]
    /\ m.stack[Len(m.stack) - 1][FoldedOnce[m.stack[Len(m.stack)].s][2]] = None

\* C36: an operation's input and output, a binding's transport and a
\* complexType's kind are assigned at most once: no step changes one of them
\* once it is Some, the End (or Empty) of a second input, output, soap
\* binding, sequence, complexContent or simpleContent under the same parent
\* ends the parse with a panic and the value as it was, and the first one
\* assigns it unless the parse ends
SingleAssignment ==
    [][/\ \A c \in 1..Len(calls) : \A i \in 1..Len(calls[c].stack) :
             \A target \in {FoldedOnce[s] : s \in DOMAIN FoldedOnce} :
                 (/\ c <= Len(calls')
                  /\ i <= Len(calls'[c].stack)
                  /\ calls[c].stack[i].s = target[1]
                  /\ calls'[c].stack[i].s = target[1]
                  /\ calls[c].stack[i][target[2]] # None) =>
                     calls'[c].stack[i][target[2]] = calls[c].stack[i][target[2]]
       /\ \A m \in Closing :
             /\ SecondChild(m) => outcome'.kind = "panic" /\ calls' = calls
             /\ (FirstChild(m) /\ outcome'.kind = "running") =>
                   /\ Len(calls'[Len(calls)].stack) = Len(m.stack) - 1
                   /\ TopOf(calls'[Len(calls)].stack)[1][FoldedOnce[m.stack[Len(m.stack)].s][2]]
                         # None]_vars

\* the second input of one operation has ended the parse
SecondInputSeen ==
    /\ outcome.kind = "panic"
    /\ last.kind = "Empty"
    /\ last.tag.name = "input"
    /\ TopOf(calls[1].stack)[1].s = "Operation"
    /\ TopOf(calls[1].stack)[1].input # None

\* the fields of the Struct types of def
StructFields(def) ==
    UNION {{def.types[i].kind.fields[j] : j \in 1..Len(def.types[i].kind.fields)} :
              i \in {n \in 1..Len(def.types) : def.types[n].kind.kind = "Struct"}}

\* evs holds a Start named ns{i}:{field} after the field
WritesFieldElement(evs, field) ==
    \E k \in 1..Len(evs) :
        evs[k].k = "Start" /\ evs[k].name = NsName(field.name.idx, field.name.name)

\* evs holds a Start whose local name is the field's
HoldsFieldElement(evs, field) ==
    \E k \in 1..Len(evs) : is_start(evs[k], field.name.name)

\* C37: the element to_xml writes for a struct field is ns{i}:{field}, named
\* after the field whether its type is built-in or user-defined, and from_xml
\* reads a body only through a Start with the field's local name
FieldElementNames ==
    /\ written # <<>> =>
          \A field \in StructFields(schema) : WritesFieldElement(written, field)
    /\ (parses > 0 /\ result.ok) =>
          \A field \in StructFields(schema) :
              \A evs \in {ReadEvents(response, <<>>)} : HoldsFieldElement(evs, field)

\* the entry of input.types that a declaration of the types namespace was
\* generated from: the first one of its name
GeneratedFrom(decl) ==
    CHOOSE i \in 1..Len(input.types) :
        /\ input.types[i].name = decl.xml_name
        /\ \A h \in 1..(i - 1) : input.types[h].name # decl.xml_name

\* C38: a type reference becomes a primitive only when it names a built-in
\* of the XML Schema namespace: in every struct generated, a field whose type
\* reference has another namespace index is declared with the Rust name of
\* that user-defined type and written and read through its to_xml and
\* from_xml, also when the local name is boolean, int, unsignedShort,
\* unsignedInt, string or dateTime
BuiltinsRespectNamespaces ==
    \A k \in 1..Len(generated.types) :
        generated.types[k].decl = "struct" =>
            \A ty \in {input.types[GeneratedFrom(generated.types[k])]} :
                \A j \in 1..Len(ty.kind.fields) :
                    (/\ ty.kind.fields[j].ty.kind = "Type"
                     /\ ty.kind.fields[j].ty.ref.idx # XmlSchemaIndex) =>
                        /\ generated.types[k].members[j].builtin = ""
                        /\ ~generated.types[k].to_xml[j].builtin
                        /\ ~generated.types[k].from_xml[j].builtin

====
